---------------------------- MODULE Spec2Model ----------------------------
(***************************************************************************)
(* A model of the av-scanner scan coordination core:                       *)
(*   - the shared detection cache (internal/cache),                        *)
(*   - the drivers' on-demand scan and log tailer (internal/drivers),      *)
(*   - the scan orchestrator Scanner.Scan (internal/scanner),              *)
(*   - the lifecycle calls Start / Stop.                                   *)
(*                                                                         *)
(* Two specifications share the variables:                                 *)
(*   Spec       the orchestrator: requests, on-demand scans, the RTS wait  *)
(*              loop, the tailer's puts and the quarantine of files;       *)
(*   SpecCache  the cache under a clock: Add / Get / Peek, the cleanup     *)
(*              ticker, and Stop of the driver, the cache and the scanner. *)
(*                                                                         *)
(* Durations of the wait loop are in milliseconds, the cache clock is in   *)
(* seconds.                                                                *)
(***************************************************************************)
EXTENDS Integers, Sequences, FiniteSets

(***************************************************************************)
(* Program constants                                                       *)
(***************************************************************************)
\* scanner.go: retryDelay := 20 * time.Millisecond
retryDelay == 20
\* cache.go: DefaultTTL = 60 * time.Second
DefaultTTL == 60
\* cache.go: DefaultCleanupInterval = 30 * time.Second
DefaultCleanupInterval == 30

MiB == 1024 * 1024

(***************************************************************************)
(* Bounds of the model                                                     *)
(***************************************************************************)
\* largest configured RTS_CACHE_BASE_DELAY (ms)
MaxBaseDelay == 20
\* largest configured RTS_CACHE_DELAY_PER_MB (ms)
MaxDelayPerMB == 5
\* largest upload, in whole MiB
MaxSizeMB == 2
\* horizon of the cache clock (s)
MaxTime == 120

Requests == {"r1", "r2"}
Engines == {"clamav", "trendmicro", "mock"}

\* Paths handed to Scan (GetUploadPath joins UPLOAD_DIR, which may be relative)
\* and paths the RTS engine writes into its log.
FilePaths == {"up/a", "/up/b"}
LogPaths == {"/up/a", "/up/b"}

\* filepath.Abs with working directory "/": an absolute clean path is
\* returned as is, a relative one is joined to the working directory.
Abs(p) == IF p = "up/a" THEN "/up/a" ELSE p

AbsPaths == {Abs(p) : p \in FilePaths \cup LogPaths}

\* Signatures an on-demand scan can report and signatures found in the log.
ManualSigs == {"SigM"}
LogSigs == {"SigA"}
CacheSigs == {"SigA", "SigB"}

BaseDelays == {0, MaxBaseDelay}
DelaysPerMB == {MaxDelayPerMB}
Sizes == {MiB - 1, MaxSizeMB * MiB}

\* Arguments of NewDetectionCache in SpecCache (0 selects the default) and the
\* step of the cache clock.
ClockStep == DefaultCleanupInterval \div 2
TTLArgs == {0, ClockStep}

VARIABLES
    \* ---- configuration (read-only after startup)
    engine,         \* Scanner.activeEngine
    cfg,            \* the active driver's DriverConfig
    \* ---- DetectionCache
    detections,     \* c.detections: absolute path -> Detection
    ttl,            \* c.ttl
    stopCh,         \* c.stopCh: "open" or "closed"
    sweeper,        \* the cleanupLoop goroutine: "running" or "exited"
    nextTick,       \* next firing time of cleanupLoop's ticker
    now,            \* the clock (s)
    \* ---- driver
    driverCtx,      \* d.ctx: "active" or "cancelled"
    tailer,         \* the watchLog goroutine: "none", "running", "exited"
    \* ---- process and file system
    panicked,       \* the process died of a runtime panic
    files,          \* absolute paths that exist in the scan directory
    \* ---- per request (one goroutine in Scanner.Scan each)
    pc,             \* position: idle, manual, loop, sleep, finalize, done
    req,            \* arguments of Scan: filePath and size
    result,         \* (result, err) of driver.ManualScan
    waited,         \* the loop's waited (ms)
    finalStatus,    \* finalStatus
    signature,      \* signature
    ret,            \* what Scan returned: "none", "ok", "error"
    probes,         \* number of detectionCache.Get calls made by the request
    \* ---- observations of the cache's direct clients (SpecCache)
    foundSincePut,  \* per key: Get calls that found the entry of the last Add
    swept,          \* keys deleted by the cleanup of the current instant
    lastCall,       \* the last Add / Get / Peek of a direct client, as it saw it
    \* ---- the drivers' inputs and outputs (SpecDrivers)
    line,           \* the line watchLog handed to processLogLine last
    scanIn,         \* how the on-demand binary of the last ManualScan ended
    scanOut,        \* what that ManualScan returned
    \* ---- the driver's lifecycle and the RTS log (SpecLife)
    getwd,          \* os.Getwd of the process: "ok" or "gone"
    logState,       \* the RTS log file: "missing", "unreadable", "readable"
    rtsLog,         \* the lines of the RTS log file, oldest first
    tailPos,        \* number of lines of rtsLog the tailer is past
    start,          \* the call of Driver.Start: made, its stat, its return
    \* ---- the HTTP layer (SpecAPI)
    authEnabled,    \* cfg.Auth.Enabled: Routes wraps the mux in the middleware
    hreq,           \* the last HTTP request served, with what its calls met
    resp,           \* the response to it, and the calls the handlers made
    \* ---- the allowlist and its watcher (SpecAllow)
    allowFile,      \* content of the allowlist file
    entries,        \* a.entries
    events,         \* Write events queued on watcher.Events
    watcher,        \* the goroutine of Watch: idle, or inside load with data
    writer,         \* a process rewriting the file: idle, or after O_TRUNC
    \* ---- file contents (SpecMock)
    fileBytes,      \* per request: the bytes of the upload, where modelled
    \* ---- metrics (SpecRequest)
    samples         \* per request: the RecordScan calls made for it, in order

cacheVars == <<detections, ttl, stopCh, sweeper, nextTick, now>>
driverVars == <<driverCtx, tailer>>
reqVars == <<pc, req, result, waited, finalStatus, signature, ret, probes>>
ioVars == <<lastCall, line, scanIn, scanOut>>
lifeVars == <<getwd, logState, rtsLog, tailPos, start>>
apiVars == <<authEnabled, hreq, resp>>
allowVars == <<allowFile, entries, events, watcher, writer>>
extVars == <<lifeVars, apiVars, allowVars, fileBytes, samples>>
obsVars == <<foundSincePut, swept, ioVars, extVars>>
vars == <<engine, cfg, detections, ttl, stopCh, sweeper, nextTick, now,
          driverCtx, tailer, panicked, files, pc, req, result, waited,
          finalStatus, signature, ret, probes, foundSincePut, swept,
          lastCall, line, scanIn, scanOut, getwd, logState, rtsLog, tailPos,
          start, authEnabled, hreq, resp, allowFile, entries, events,
          watcher, writer, fileBytes, samples>>

(***************************************************************************)
(* DetectionCache (package cache)                                          *)
(***************************************************************************)
NoDetection == [FilePath |-> "", Status |-> "", Signature |-> "", Timestamp |-> 0]

\* NewDetectionCache: a zero ttl selects DefaultTTL.
NewDetectionCache(ttlArg) == IF ttlArg = 0 THEN DefaultTTL ELSE ttlArg

\* Add: stamps the detection and stores it under absPath (whole body under c.mu).
Add_KeepExisting(c, absPath, detection, t) ==
    IF absPath \in DOMAIN c THEN c
    ELSE [q \in DOMAIN c \cup {absPath} |->
             IF q = absPath THEN [detection EXCEPT !.Timestamp = t] ELSE c[q]]

Add(c, absPath, detection, t) ==
    [q \in DOMAIN c \cup {absPath} |->
        IF q = absPath THEN [detection EXCEPT !.Timestamp = t] ELSE c[q]]

\* Get: returns the entry and deletes it (whole body under c.mu.Lock).
Get_NoDelete(c, absPath) ==
    [found  |-> absPath \in DOMAIN c,
     cached |-> IF absPath \in DOMAIN c THEN c[absPath] ELSE NoDetection,
     cache  |-> c]

Get_AnyKey(c, absPath) ==
    IF DOMAIN c = {}
    THEN [found |-> FALSE, cached |-> NoDetection, cache |-> c]
    ELSE LET k == CHOOSE q \in DOMAIN c : TRUE
         IN  [found |-> TRUE, cached |-> c[k],
              cache |-> [q \in DOMAIN c \ {k} |-> c[q]]]

Get_Clear(c, absPath) ==
    [found  |-> absPath \in DOMAIN c,
     cached |-> IF absPath \in DOMAIN c THEN c[absPath] ELSE NoDetection,
     cache  |-> << >>]

Get(c, absPath) ==
    [found  |-> absPath \in DOMAIN c,
     cached |-> IF absPath \in DOMAIN c THEN c[absPath] ELSE NoDetection,
     cache  |-> [q \in DOMAIN c \ {absPath} |-> c[q]]]

\* Peek: returns the entry and leaves the map alone (under c.mu.RLock).
Peek(c, absPath) ==
    [found  |-> absPath \in DOMAIN c,
     cached |-> IF absPath \in DOMAIN c THEN c[absPath] ELSE NoDetection]

\* cleanup: deletes every entry with now - Timestamp > ttl.
cleanup_Never(c, t, aTtl) == c

cleanup_Reversed(c, t, aTtl) ==
    [q \in {p \in DOMAIN c : ~(c[p].Timestamp - t > aTtl)} |-> c[q]]

cleanup_Lenient(c, t, aTtl) ==
    [q \in {p \in DOMAIN c : ~(t - c[p].Timestamp > 2 * aTtl)} |-> c[q]]

cleanup(c, t, aTtl) ==
    [q \in {p \in DOMAIN c : ~(t - c[p].Timestamp > aTtl)} |-> c[q]]

(***************************************************************************)
(* Drivers: the on-demand scan (ManualScan)                                *)
(***************************************************************************)
ErrResult == [err |-> TRUE, Status |-> "", Signature |-> ""]
NoResult == [err |-> FALSE, Status |-> "", Signature |-> ""]
OkResult(status, sig) == [err |-> FALSE, Status |-> status, Signature |-> sig]

\* How cmd.Run() ended: "nil", "ExitError" (with an exit code),
\* "DeadlineExceeded" (the driver's timeout) or "other" (binary not runnable).
RunKinds == {"nil", "ExitError", "DeadlineExceeded", "other"}
\* ExitError.ExitCode(): -1 when the child was killed by a signal, as the
\* context does when its deadline passes.
ExitCodes == {-1, 1, 2}

\* ClamAVDriver.ManualScan. foundSig is the signature of a "<path>: <sig> FOUND"
\* line in stdout, "" when stdout holds no such line.
ClamAVManualScan_ExitCodeFirst(run, code, foundSig) ==
    IF run \in {"DeadlineExceeded", "other"} THEN ErrResult
    ELSE LET exitCode == IF run = "ExitError" THEN code ELSE 0
         IN  OkResult(IF exitCode = 0 THEN "clean"
                      ELSE IF exitCode = 1 THEN "infected" ELSE "error",
                      foundSig)

ClamAVManualScan(run, code, foundSig) ==
    IF run \in {"DeadlineExceeded", "other"} THEN ErrResult
    ELSE LET exitCode == IF run = "ExitError" THEN code ELSE 0
         IN  IF foundSig # ""
             THEN OkResult("infected", foundSig)
             ELSE OkResult(IF exitCode = 0 THEN "clean"
                           ELSE IF exitCode = 1 THEN "infected" ELSE "error", "")

\* TrendMicroDriver.parseManualScanOutput. out.json tells whether stdout is
\* the JSON object; out.keyword whether the text holds infected|virus|malware.
parseManualScanOutput(out, exitCode) ==
    IF out.json
    THEN IF out.skipped > 0 /\ out.scanned = 0 THEN <<"error", "">>
         ELSE IF out.infected > 0 \/ Len(out.infectedFiles) > 0
              THEN <<"infected",
                     IF Len(out.infectedFiles) > 0 THEN out.infectedFiles[1] ELSE "">>
         ELSE IF out.scanned > 0 THEN <<"clean", "">>
         ELSE <<"error", "">>
    ELSE IF out.keyword THEN <<"infected", "">>
         ELSE IF exitCode = 0 THEN <<"clean", "">>
         ELSE <<"error", "">>

TMOutputs ==
    [json : {TRUE}, scanned : 0..1, skipped : 0..1, infected : 0..1,
     infectedFiles : {<<>>, <<"SigM">>}, keyword : {FALSE}]
    \cup
    [json : {FALSE}, scanned : {0}, skipped : {0}, infected : {0},
     infectedFiles : {<<>>}, keyword : BOOLEAN]

\* TrendMicroDriver.ManualScan
TrendMicroManualScan(run, code, out) ==
    IF run \in {"DeadlineExceeded", "other"} THEN ErrResult
    ELSE LET exitCode == IF run = "ExitError" THEN code ELSE 0
             parsed == parseManualScanOutput(out, exitCode)
         IN  OkResult(parsed[1], parsed[2])

\* The printable ASCII characters, from code 32 on: string(b) of a byte.
\* Code 96 is written "grave".
ASCII ==
    <<" ", "!", "\"", "#", "$", "%", "&", "'", "(", ")", "*", "+", ",",
      "-", ".", "/", "0", "1", "2", "3", "4", "5", "6", "7", "8", "9", ":",
      ";", "<", "=", ">", "?", "@", "A", "B", "C", "D", "E", "F", "G", "H",
      "I", "J", "K", "L", "M", "N", "O", "P", "Q", "R", "S", "T", "U", "V",
      "W", "X", "Y", "Z", "[", "\\", "]", "^", "_", "grave", "a", "b", "c",
      "d", "e", "f", "g", "h", "i", "j", "k", "l", "m", "n", "o", "p", "q",
      "r", "s", "t", "u", "v", "w", "x", "y", "z", "{", "|", "}", "~">>

Chr(code) == ASCII[code - 31]

\* eicarCodes
eicarCodes ==
    <<88, 53, 79, 33, 80, 37, 64, 65, 80, 91, 52, 92, 80, 90, 88, 53, 52,
      40, 80, 94, 41, 55, 67, 67, 41, 55, 125, 36, 69, 73, 67, 65, 82, 45,
      83, 84, 65, 78, 68, 65, 82, 68, 45, 65, 78, 84, 73, 86, 73, 82, 85,
      83, 45, 84, 69, 83, 84, 45, 70, 73, 76, 69, 33, 36, 72, 43, 72, 42>>

\* EICARPattern: string(eicarCodes)
EICARPattern == [i \in DOMAIN eicarCodes |-> Chr(eicarCodes[i])]

\* strings.Contains on sequences of characters.
Contains_HasPrefix(str, substr) ==
    Len(substr) <= Len(str) /\ SubSeq(str, 1, Len(substr)) = substr

Contains(str, substr) ==
    \E i \in 0..(Len(str) - Len(substr)) :
       SubSeq(str, i + 1, i + Len(substr)) = substr

\* The 68 characters of the standard antivirus test file.
EICAR ==
    <<"X", "5", "O", "!", "P", "%", "@", "A", "P", "[", "4", "\\", "P",
      "Z", "X", "5", "4", "(", "P", "^", ")", "7", "C", "C", ")", "7", "}",
      "$", "E", "I", "C", "A", "R", "-", "S", "T", "A", "N", "D", "A", "R",
      "D", "-", "A", "N", "T", "I", "V", "I", "R", "U", "S", "-", "T", "E",
      "S", "T", "-", "F", "I", "L", "E", "!", "$", "H", "+", "H", "*">>

\* Uploads: the test file, the test file inside other text, the test file
\* with its third character replaced, the test file cut short, an empty
\* file, plain text.
MockContents ==
    {EICAR,
     <<"a", "b">> \o EICAR \o <<"c">>,
     [EICAR EXCEPT ![3] = "x"],
     SubSeq(EICAR, 1, Len(EICAR) - 1),
     << >>,
     <<"h", "i">>}

\* MockDriver.scan: os.ReadFile fails on a missing file; the EICAR pattern
\* in the content gives infected with EICARSignature.
MockScan(readable, hasEicar) ==
    IF ~readable THEN ErrResult
    ELSE IF hasEicar THEN OkResult("infected", "EICAR-Test-File")
    ELSE OkResult("clean", "")

(***************************************************************************)
(* Drivers: the log tailer (processLogLine)                                *)
(*                                                                         *)
(* A line is a sequence of tokens. A token is a run of characters that the *)
(* two regular expressions cannot split: a space, a newline, one of the    *)
(* punctuation marks they name, a literal they name, or a word.            *)
(***************************************************************************)
\* \s and .
IsSpace(t) == t \in {" ", "\n"}
Dot(t) == t # "\n"

AllSpace(l, a, b) == \A x \in a..b : IsSpace(l[x])
AllDot(l, a, b) == \A x \in a..b : Dot(l[x])

Max(S) == CHOOSE x \in S : \A y \in S : y <= x
Min(S) == CHOOSE x \in S : \A y \in S : x <= y

\* The string a token sequence spells.
RECURSIVE Join(_)
Join(toks) == IF toks = << >> THEN "" ELSE Head(toks) \o Join(Tail(toks))

\* strings.TrimSpace
RECURSIVE TrimSpace(_)
TrimSpace(toks) ==
    IF toks = << >> THEN toks
    ELSE IF IsSpace(Head(toks)) THEN TrimSpace(Tail(toks))
    ELSE IF IsSpace(toks[Len(toks)])
         THEN TrimSpace(SubSeq(toks, 1, Len(toks) - 1))
    ELSE toks

\* filepath.Abs with working directory "/": an absolute path is returned as
\* is, a relative one is joined to the working directory, and when os.Getwd
\* fails the result is "" with the error.
FilepathAbs(toks) ==
    IF toks # << >> /\ Head(toks) = "/"
    THEN [path |-> Join(toks), err |-> FALSE]
    ELSE IF getwd = "ok" THEN [path |-> "/" \o Join(toks), err |-> FALSE]
    ELSE [path |-> "", err |-> TRUE]

\* processLogLine: absPath, err := filepath.Abs(p); if err != nil { absPath = p }
TailerAbsPath(toks) ==
    IF FilepathAbs(toks).err THEN Join(toks) ELSE FilepathAbs(toks).path

\* clamavFoundRegex.FindStringSubmatch(l) for `(.+):\s+(.+)\s+FOUND$`: the
\* leftmost match with every repetition greedy. << >> when nothing matches,
\* else <<matches[1], matches[2]>>. The match is
\*   l[s..c-1] (.+)   l[c] ':'   l[c+1..j] \s+   l[j+1..k] (.+)
\*   l[k+1..n-1] \s+   l[n] FOUND.
clamavFoundRegex(l) ==
    LET n == Len(l)
        Rest(c) == {jk \in (c + 1..n) \X (c + 2..n) :
                      /\ AllSpace(l, c + 1, jk[1])
                      /\ jk[2] > jk[1] /\ AllDot(l, jk[1] + 1, jk[2])
                      /\ jk[2] + 1 <= n - 1 /\ AllSpace(l, jk[2] + 1, n - 1)
                      /\ l[n] = "FOUND"}
        Tails == {c \in 2..n : l[n] = "FOUND" /\ l[c] = ":" /\ Rest(c) # {}}
        Colons(s) == {c \in Tails : c > s /\ AllDot(l, s, c - 1)}
        Starts == {s \in 1..n : Colons(s) # {}}
    IN  IF Starts = {} THEN << >>
        ELSE LET s == Min(Starts)
                 c == Max(Colons(s))
                 j == Max({jk[1] : jk \in Rest(c)})
                 k == Max({jk[2] : jk \in {x \in Rest(c) : x[1] = j}})
             IN  <<SubSeq(l, s, c - 1), SubSeq(l, j + 1, k)>>

\* ClamAVDriver.processLogLine
ClamAVProcessLogLine_CachesOK(c, l, t) ==
    LET matches == clamavFoundRegex(l)
    IN  IF matches # << >>
        THEN Add(c, TailerAbsPath(matches[1]),
                 [FilePath |-> Join(matches[1]), Status |-> "infected",
                  Signature |-> Join(matches[2]), Timestamp |-> 0], t)
        ELSE IF Len(l) > 3 /\ l[Len(l)] = "OK" /\ l[Len(l) - 2] = ":"
        THEN Add(c, TailerAbsPath(SubSeq(l, 1, Len(l) - 3)),
                 [FilePath |-> Join(SubSeq(l, 1, Len(l) - 3)),
                  Status |-> "clean", Signature |-> "", Timestamp |-> 0], t)
        ELSE c

ClamAVProcessLogLine(c, l, t) ==
    LET matches == clamavFoundRegex(l)
    IN  IF matches # << >>
        THEN Add(c, TailerAbsPath(matches[1]),
                 [FilePath |-> Join(matches[1]), Status |-> "infected",
                  Signature |-> Join(matches[2]), Timestamp |-> 0], t)
        ELSE c

\* tmVirusFoundRegex.FindStringSubmatch(l) for
\* `\([^,]+,\s*([^)]+)\)\s*virus found:`. << >> when nothing matches, else
\* <<matches[1]>>. The match is
\*   l[s] '('   l[s+1..m-1] [^,]+   l[m] ','   l[m+1..b] \s*
\*   l[b+1..e-1] ([^)]+)   l[e] ')'   l[e+1..f] \s*   l[f+1] 'virus found:'.
tmVirusFoundRegex(l) ==
    LET n == Len(l)
        First(tok, from) ==
            IF \E x \in from..n : l[x] = tok
            THEN Min({x \in from..n : l[x] = tok}) ELSE 0
        Comma(s) == First(",", s + 1)
        Close(b) == First(")", b + 1)
        Tail2(e) == \E f \in e..n - 1 :
                       AllSpace(l, e + 1, f) /\ l[f + 1] = "virus found:"
        Blanks(s) == {b \in Comma(s)..n :
                        /\ AllSpace(l, Comma(s) + 1, b)
                        /\ Close(b) > b + 1
                        /\ Tail2(Close(b))}
        Starts == {s \in 1..n :
                     l[s] = "(" /\ Comma(s) > s + 1 /\ Blanks(s) # {}}
    IN  IF Starts = {} THEN << >>
        ELSE LET s == Min(Starts)
                 b == Max(Blanks(s))
             IN  <<SubSeq(l, b + 1, Close(b) - 1)>>

\* TrendMicroDriver.processLogLine
TrendMicroProcessLogLine(c, l, t) ==
    LET matches == tmVirusFoundRegex(l)
    IN  IF matches # << >>
        THEN LET filePath == TrimSpace(matches[1])
             IN  Add(c, TailerAbsPath(filePath),
                     [FilePath |-> Join(filePath), Status |-> "infected",
                      Signature |-> "virus", Timestamp |-> 0], t)
        ELSE c

\* Lines of the ClamAV on-access log: a detection with an absolute and with
\* a relative path, a detection behind a timestamp, a clean file, a
\* quarantine notice, and a line of no known form.
ClamAVLines ==
    {<<"/", "up/a", ":", " ", "SigA", " ", "FOUND">>,
     <<"up/a", ":", " ", "SigA", " ", "FOUND">>,
     <<"[2025-11-21", " ", "13:53:06]", " ",
       "/", "up/b", ":", " ", "SigA", " ", "FOUND">>,
     <<"/", "up/a", ":", " ", "OK">>,
     <<"/", "up/b", ":", " ", "moved", " ", "to", " ", "'/quarantine/b'">>,
     <<"ERROR", ":", " ", "Can't", " ", "open", " ", "file">>}

\* Lines of the Trend Micro DS Agent log: SCTRL detections (one of a path with
\* a space), the clean and failed variants, and a line of no known form.
TMLines ==
    {<<"[SCTRL]", " ", "(", "0000-0000", ",", " ", "/", "up/a", ")", " ",
       "virus found:", " ", "2">>,
     <<"[SCTRL]", " ", "(", "0000-0000", ",", " ", "/", "up/my", " ", "file",
       ")", " ", "virus found:", " ", "2">>,
     <<"[SCTRL]", " ", "(", "0000-0000", ",", " ", "/", "up/a", ")", " ",
       "clean">>,
     <<"[SCTRL]", " ", "(", "0000-0000", ",", " ", "/", "up/b", ")", " ",
       "failed:", " ", "5">>,
     <<"[ds_am/4]", " ", "started">>}

\* What the on-demand clamdscan can leave in stdout.
ClamAVStdouts ==
    {<< >>,
     <<"/", "up/a", ":", " ", "SigM", " ", "FOUND", "\n">>,
     <<"/", "up/a", ":", " ", "OK", "\n">>}

\* The signature of the FOUND line in strings.TrimSpace(stdout), "" if none.
FoundSignature(stdout) ==
    LET matches == clamavFoundRegex(TrimSpace(stdout))
    IN  IF matches = << >> THEN "" ELSE Join(matches[2])

(***************************************************************************)
(* Scanner.Scan: helpers                                                   *)
(***************************************************************************)
\* err == nil && (result.Status == StatusClean || result.Status == StatusInfected)
IsDecisive_CleanOnly(r) == ~r.err /\ r.Status = "clean"

IsDecisive_InfectedOnly(r) == ~r.err /\ r.Status = "infected"

IsDecisive(r) == ~r.err /\ r.Status \in {"clean", "infected"}

\* maxWait := baseDelay + time.Duration(size/1024/1024)*delayPerMB
MaxWait_BaseOnly(c, size) == c.RTSCacheBaseDelay

MaxWait_RoundUp(c, size) ==
    c.RTSCacheBaseDelay + ((size + MiB - 1) \div MiB) * c.RTSCacheDelayPerMB

MaxWait(c, size) ==
    c.RTSCacheBaseDelay + ((size \div 1024) \div 1024) * c.RTSCacheDelayPerMB

\* for waited < maxWait
LoopContinues_ExitEarly(w, maxWait) == w + retryDelay < maxWait

LoopContinues(w, maxWait) == w < maxWait

\* Scan: absPath, _ := filepath.Abs(filePath). The error is dropped, so when
\* os.Getwd fails for a relative path the key is the "" that Abs returned.
ScanAbsPath(p) == IF p = Abs(p) \/ getwd = "ok" THEN Abs(p) ELSE ""

\* deleteFile: os.Remove(filePath); a missing file is not an error.
deleteFile(fs, filePath) == fs \ {Abs(filePath)}

\* The error deleteFile returns: nil after a removal and after ErrNotExist,
\* else the error of os.Remove.
deleteFileErr(fs, filePath, fault) == fault /\ Abs(filePath) \in fs

\* Scan: "s.deleteFile(filePath, fileID)" drops the error; the response is
\* returned with a nil error.
ScanReturn_SurfaceRemoveError(rmErr) == IF rmErr THEN "error" ELSE "ok"

ScanReturn(rmErr) == "ok"

\* metrics.RecordScan(engine, result): one more sample with these labels.
RecordScan_Twice(s, eng, res) ==
    s \o <<[engine |-> eng, result |-> res], [engine |-> eng, result |-> res]>>

RecordScan(s, eng, res) == Append(s, [engine |-> eng, result |-> res])

\* Scanner.New: the mock driver gets DriverConfig{Engine: mock}, every delay 0.
DriverConfigs ==
    [RTSCacheBaseDelay : BaseDelays, RTSCacheDelayPerMB : DelaysPerMB]

MockConfig == [RTSCacheBaseDelay |-> 0, RTSCacheDelayPerMB |-> 0]

NoRequest == [filePath |-> "", size |-> 0]

\* No cache call observed yet; no on-demand scan made yet.
NoCall == [op |-> "none", key |-> "", had |-> FALSE, found |-> FALSE,
           cached |-> NoDetection]
NoOutput == [json |-> FALSE, scanned |-> 0, skipped |-> 0, infected |-> 0,
             infectedFiles |-> << >>, keyword |-> FALSE]
NoScan == [run |-> "none", code |-> 0, stdout |-> << >>, out |-> NoOutput]

(***************************************************************************)
(* The HTTP layer: auth.Middleware, auth.Client, API handlers              *)
(***************************************************************************)
\* API.New: the paths the middleware lets through unauthenticated.
skipPaths == {"/api/v1/live", "/api/v1/ready", "/metrics"}

\* cfg.Auth.ClusterName
ClusterName == "prod"

\* MAX_FILE_SIZE, its default.
MaxFileSize == 104857600

NoIdentity == [Cluster |-> "", Namespace |-> "", ServiceAccount |-> ""]

\* What the auth service answers to POST /validate; code 0 is a failed call.
NoAnswer == [code |-> 0, valid |-> FALSE, namespace |-> "", serviceAccount |-> ""]
AuthAnswers ==
    {[code |-> 200, valid |-> TRUE, namespace |-> "ns1", serviceAccount |-> "sa1"],
     [code |-> 200, valid |-> TRUE, namespace |-> "ns2", serviceAccount |-> "sa2"],
     [code |-> 200, valid |-> FALSE, namespace |-> "", serviceAccount |-> ""],
     [code |-> 401, valid |-> FALSE, namespace |-> "", serviceAccount |-> ""],
     NoAnswer}

\* Client.Validate: an identity only for 200 with valid = true.
Validate(answer) ==
    IF answer.code = 200 /\ answer.valid
    THEN [err |-> FALSE,
          identity |-> [Cluster |-> ClusterName, Namespace |-> answer.namespace,
                        ServiceAccount |-> answer.serviceAccount]]
    ELSE [err |-> TRUE, identity |-> NoIdentity]

\* Allowlist.IsAllowed: the key is fmt.Sprintf("%s/%s/%s", ...).
IsAllowed(ents, cluster, namespace, serviceAccount) ==
    (cluster \o "/" \o namespace \o "/" \o serviceAccount) \in ents

\* strings.TrimPrefix on a header given as tokens, the scheme with its space
\* being one token.
TrimPrefix(h, prefix) == IF h # << >> /\ Head(h) = prefix THEN Tail(h) ELSE h

\* Authorization headers: none, a bearer token, a bearer scheme with an
\* empty token, another scheme, a bare token.
Headers ==
    {<< >>, <<"Bearer ", "tok">>, <<"Bearer ">>, <<"Basic ", "dXNlcg==">>,
     <<"tok">>}

\* Middleware.Handler: next tells whether next.ServeHTTP is called, status is
\* what the middleware itself answered, contacted whether client.Validate
\* was called, identity what is attached to the request context.
Deny(status, contacted) ==
    [next |-> FALSE, status |-> status, contacted |-> contacted,
     identity |-> NoIdentity]

MiddlewareHandler_NoAllowlist(path, header, answer, ents) ==
    IF path \in skipPaths
    THEN [next |-> TRUE, status |-> 0, contacted |-> FALSE,
          identity |-> NoIdentity]
    ELSE IF header = << >> THEN Deny(401, FALSE)
    ELSE IF TrimPrefix(header, "Bearer ") = header THEN Deny(401, FALSE)
    ELSE IF Validate(answer).err THEN Deny(401, TRUE)
    ELSE [next |-> TRUE, status |-> 0, contacted |-> TRUE,
          identity |-> Validate(answer).identity]

MiddlewareHandler(path, header, answer, ents) ==
    IF path \in skipPaths
    THEN [next |-> TRUE, status |-> 0, contacted |-> FALSE,
          identity |-> NoIdentity]
    ELSE IF header = << >> THEN Deny(401, FALSE)
    ELSE IF TrimPrefix(header, "Bearer ") = header THEN Deny(401, FALSE)
    ELSE IF Validate(answer).err THEN Deny(401, TRUE)
    ELSE LET identity == Validate(answer).identity
         IN  IF ~IsAllowed(ents, identity.Cluster, identity.Namespace,
                           identity.ServiceAccount)
             THEN Deny(403, TRUE)
             ELSE [next |-> TRUE, status |-> 0, contacted |-> TRUE,
                   identity |-> identity]

\* Routes without the middleware: the mux is the handler.
NoMiddleware ==
    [next |-> TRUE, status |-> 0, contacted |-> FALSE, identity |-> NoIdentity]

\* jsonError
jsonError(message) == [error |-> message]

\* The body of a request to POST /scan: not multipart at all, or multipart
\* with file parts under the given field names.
Forms ==
    {[multipart |-> FALSE, fields |-> {}],
     [multipart |-> TRUE, fields |-> {}],
     [multipart |-> TRUE, fields |-> {"document"}],
     [multipart |-> TRUE, fields |-> {"file"}]}

UploadSizes == {MiB, MaxFileSize + MiB}

\* r.ParseMultipartForm(maxMemory): an error for a body that is no multipart
\* form; parts beyond maxMemory bytes go to temporary files, none is refused.
ParseMultipartForm(form, size, maxMemory) ==
    [err |-> ~form.multipart, onDisk |-> form.multipart /\ size > maxMemory]

\* r.FormFile(name)
FormFile(form, name) == [err |-> name \notin form.fields]

\* What Scanner.Scan returns to handleScan.
ScanReturns ==
    {ErrResult, OkResult("clean", ""), OkResult("infected", "SigM"),
     OkResult("infected", "")}

\* How saving the upload goes: os.Create fails, io.Copy fails, or neither.
SaveOutcomes == {"ok", "createErr", "copyErr"}

\* What handleScan did besides answering.
Handled(status, body, created, removed, scanCalled, left) ==
    [status |-> status, body |-> body, created |-> created,
     removed |-> removed, scanCalled |-> scanCalled, left |-> left]

\* The response map of handleScan.
ScanBody_AlwaysSignature(res, eng) ==
    [fileId |-> "uuid", fileName |-> "name", status |-> res.Status,
     engine |-> eng, duration |-> "ms", signature |-> res.Signature]

ScanBody(res, eng) ==
    IF res.Signature # ""
    THEN [fileId |-> "uuid", fileName |-> "name", status |-> res.Status,
          engine |-> eng, duration |-> "ms", signature |-> res.Signature]
    ELSE [fileId |-> "uuid", fileName |-> "name", status |-> res.Status,
          engine |-> eng, duration |-> "ms"]

\* API.handleScan. left: the upload is still in the upload directory when
\* the handler returns (Scan deletes it on success only).
handleScan_ScanAnyway(form, size, save, scan, eng) ==
    IF ParseMultipartForm(form, size, MaxFileSize).err
    THEN Handled(400, jsonError("File too large or invalid form"),
                 FALSE, FALSE, FALSE, FALSE)
    ELSE IF FormFile(form, "file").err
    THEN Handled(400, jsonError("No file provided"), FALSE, FALSE, FALSE, FALSE)
    ELSE IF scan.err
    THEN Handled(500, jsonError("Scan failed"), save # "createErr", FALSE,
                 TRUE, save # "createErr")
    ELSE Handled(200, ScanBody(scan, eng), save # "createErr", FALSE, TRUE,
                 FALSE)

handleScan(form, size, save, scan, eng) ==
    IF ParseMultipartForm(form, size, MaxFileSize).err
    THEN Handled(400, jsonError("File too large or invalid form"),
                 FALSE, FALSE, FALSE, FALSE)
    ELSE IF FormFile(form, "file").err
    THEN Handled(400, jsonError("No file provided"), FALSE, FALSE, FALSE, FALSE)
    ELSE IF save = "createErr"
    THEN Handled(500, jsonError("Failed to save uploaded file"),
                 FALSE, FALSE, FALSE, FALSE)
    ELSE IF save = "copyErr"
    THEN Handled(500, jsonError("Failed to save uploaded file"),
                 TRUE, TRUE, FALSE, FALSE)
    ELSE IF scan.err
    THEN Handled(500, jsonError("Scan failed"), TRUE, FALSE, TRUE, TRUE)
    ELSE Handled(200, ScanBody(scan, eng), TRUE, FALSE, TRUE, FALSE)

\* Driver.CheckHealth: ClamAV and Trend Micro stat the RTS log, the mock is
\* always healthy.
DriverCheckHealth(eng, log) ==
    [Engine |-> eng, Healthy |-> (eng = "mock" \/ log # "missing")]

\* Scanner.CheckHealth and Scanner.GetEngineInfo: one element, the active
\* driver's.
CheckHealth(eng, log) == <<DriverCheckHealth(eng, log)>>

GetEngineInfo(eng) ==
    <<[Engine |-> eng, Available |-> TRUE, RTSEnabled |-> eng # "mock",
       ManualScanAvailable |-> TRUE]>>

\* API.handleHealth
handleHealth(healthResults, activeEngine) ==
    LET activeHealthy ==
            \E i \in DOMAIN healthResults :
               /\ healthResults[i].Engine = activeEngine
               /\ healthResults[i].Healthy
    IN  Handled(IF activeHealthy THEN 200 ELSE 503,
                [status |-> IF activeHealthy THEN "healthy" ELSE "unhealthy",
                 activeEngine |-> activeEngine,
                 engines |-> [i \in DOMAIN healthResults |->
                                [engine |-> healthResults[i].Engine,
                                 healthy |-> healthResults[i].Healthy]]],
                FALSE, FALSE, FALSE, FALSE)

\* API.handleEngines
handleEngines(infos, activeEngine) ==
    Handled(200,
            [activeEngine |-> activeEngine,
             engines |-> [i \in DOMAIN infos |->
                            [engine |-> infos[i].Engine,
                             available |-> infos[i].Available,
                             rtsEnabled |-> infos[i].RTSEnabled,
                             manualScanAvailable |->
                                 infos[i].ManualScanAvailable,
                             active |-> infos[i].Engine = activeEngine]]],
            FALSE, FALSE, FALSE, FALSE)

\* API.handleLive
handleLive == Handled(200, [alive |-> TRUE], FALSE, FALSE, FALSE, FALSE)

\* No request served yet.
NoRequestHTTP ==
    [path |-> "", header |-> << >>, answer |-> NoAnswer,
     form |-> [multipart |-> FALSE, fields |-> {}], size |-> 0,
     save |-> "ok", scan |-> NoResult]
NoResponse ==
    [status |-> 0, body |-> [none |-> TRUE], next |-> FALSE,
     contacted |-> FALSE, identity |-> NoIdentity, created |-> FALSE,
     removed |-> FALSE, scanCalled |-> FALSE, left |-> FALSE]

(***************************************************************************)
(* The allowlist (auth.Allowlist)                                          *)
(***************************************************************************)
\* A file as load meets it: whether os.ReadFile fails, whether
\* yaml.Unmarshal accepts the content, and the sequence under its allowlist
\* key. An empty file is accepted and gives no entry.
EmptyFile == [readErr |-> FALSE, yaml |-> TRUE, allowlist |-> << >>]
BadFile == [readErr |-> FALSE, yaml |-> FALSE, allowlist |-> << >>]
GoneFile == [readErr |-> TRUE, yaml |-> FALSE, allowlist |-> << >>]
ValidFiles ==
    {[readErr |-> FALSE, yaml |-> TRUE, allowlist |-> <<"prod/ns1/sa1">>],
     [readErr |-> FALSE, yaml |-> TRUE,
      allowlist |-> <<"prod/ns1/sa1", "prod/ns2/sa2">>],
     [readErr |-> FALSE, yaml |-> TRUE,
      allowlist |-> <<"prod/ns2/sa2", "prod/ns2/sa2">>]}

\* load: os.ReadFile gave data; a.entries becomes the set of the listed
\* strings; on a read error and on a parse error load returns before the
\* assignment and the entries stay.
load_ClearOnError(data, old) ==
    IF ~data.readErr /\ data.yaml
    THEN {data.allowlist[i] : i \in DOMAIN data.allowlist}
    ELSE {}

load_Merge(data, old) ==
    IF ~data.readErr /\ data.yaml
    THEN old \cup {data.allowlist[i] : i \in DOMAIN data.allowlist}
    ELSE old

load(data, old) ==
    IF ~data.readErr /\ data.yaml
    THEN {data.allowlist[i] : i \in DOMAIN data.allowlist}
    ELSE old

\* Write events not yet received: inotify merges an event into an equal one
\* that is still unread, so at most one waits in the kernel queue behind the
\* one the fsnotify reader holds.
QueueDepth == 2

Notify(n) == IF n < QueueDepth THEN n + 1 ELSE n

\* The watcher goroutine outside load; no rewrite of the file under way.
NoLoad == [in |-> "select", data |-> EmptyFile]
NoWrite == [in |-> "idle", data |-> EmptyFile]

\* Driver.Start not called yet.
NoStart == [called |-> FALSE, statErr |-> FALSE, err |-> FALSE, histLen |-> 0]

\* Start has returned nil; it launched watchLog unless os.Stat failed.
Started(statErr, n) ==
    [called |-> TRUE, statErr |-> statErr, err |-> FALSE, histLen |-> n]

\* The bytes of an upload that the model leaves open.
AnyBytes == <<"unmodelled">>

(***************************************************************************)
(* Initial states                                                          *)
(***************************************************************************)
\* The parts of the state that a specification does not exercise: the
\* working directory exists, no HTTP request was served, auth is disabled,
\* the allowlist is empty, the uploads' bytes are left open, no scan has
\* been recorded.
InitLife ==
    /\ getwd = "ok"
    /\ logState = IF tailer = "running" THEN "readable" ELSE "missing"
    /\ rtsLog = << >>
    /\ tailPos = 0
    /\ start = Started(tailer = "none", 0)

InitAPI ==
    /\ authEnabled = FALSE
    /\ hreq = NoRequestHTTP
    /\ resp = NoResponse

InitAllow ==
    /\ allowFile = EmptyFile
    /\ entries = {}
    /\ events = 0
    /\ watcher = NoLoad
    /\ writer = NoWrite

InitBytes ==
    /\ fileBytes = [r \in Requests |-> AnyBytes]
    /\ samples = [r \in Requests |-> << >>]

TypeOK ==
    /\ engine \in Engines
    /\ pc \in [Requests -> {"idle", "manual", "loop", "sleep", "finalize", "done"}]
    /\ ret \in [Requests -> {"none", "ok", "error"}]
    /\ DOMAIN detections \subseteq AbsPaths
    /\ files \subseteq AbsPaths

\* Spec: after Scanner.New and Scanner.Start. Start launches the tailer only
\* when the RTS log is readable; the mock driver has none.
InitScanner ==
    /\ engine \in Engines
    /\ cfg \in (IF engine = "mock" THEN {MockConfig} ELSE DriverConfigs)
    /\ detections = << >>
    /\ ttl = NewDetectionCache(DefaultTTL)
    /\ stopCh = "open"
    /\ sweeper = "running"
    /\ nextTick = DefaultCleanupInterval
    /\ now = 0
    /\ driverCtx = "active"
    /\ tailer \in (IF engine = "mock" THEN {"none"} ELSE {"none", "running"})
    /\ panicked = FALSE
    /\ files = {}
    /\ pc = [r \in Requests |-> "idle"]
    /\ req = [r \in Requests |-> NoRequest]
    /\ result = [r \in Requests |-> NoResult]
    /\ waited = [r \in Requests |-> 0]
    /\ finalStatus = [r \in Requests |-> ""]
    /\ signature = [r \in Requests |-> ""]
    /\ ret = [r \in Requests |-> "none"]
    /\ probes = [r \in Requests |-> 0]
    /\ foundSincePut = [p \in AbsPaths |-> 0]
    /\ swept = {}
    /\ lastCall = NoCall
    /\ line = << >>
    /\ scanIn = NoScan
    /\ scanOut = NoResult

Init == InitScanner /\ InitLife /\ InitAPI /\ InitAllow /\ InitBytes

(***************************************************************************)
(* The request path: API.handleScan and Scanner.Scan                       *)
(***************************************************************************)
\* handleScan: the upload is written to filePath, then Scan is called. bytes
\* is what io.Copy wrote, AnyBytes where the content is left open.
SaveUpload(r, bytes) ==
    /\ pc[r] = "idle"
    /\ fileBytes' = [fileBytes EXCEPT ![r] = bytes]
    /\ samples' = [samples EXCEPT ![r] = << >>]
    /\ \E p \in FilePaths, s \in Sizes :
          /\ req' = [req EXCEPT ![r] = [filePath |-> p, size |-> s]]
          /\ files' = files \cup {Abs(p)}
    /\ pc' = [pc EXCEPT ![r] = "manual"]
    /\ result' = [result EXCEPT ![r] = NoResult]
    /\ waited' = [waited EXCEPT ![r] = 0]
    /\ finalStatus' = [finalStatus EXCEPT ![r] = ""]
    /\ signature' = [signature EXCEPT ![r] = ""]
    /\ ret' = [ret EXCEPT ![r] = "none"]
    /\ probes' = [probes EXCEPT ![r] = 0]
    /\ UNCHANGED <<engine, cfg, cacheVars, driverVars, panicked, foundSincePut,
                   swept, ioVars, lifeVars, apiVars, allowVars>>

HandleScanSave(r) == SaveUpload(r, AnyBytes)

\* The same with the bytes of the upload kept.
HandleScanSaveBytes(r) == \E bytes \in MockContents : SaveUpload(r, bytes)

\* What driver.ManualScan(filePath) can return for the active engine.
ManualScanResults(r) ==
    IF engine = "clamav"
    THEN {ClamAVManualScan(run, code, sig) :
            run \in RunKinds, code \in ExitCodes, sig \in ManualSigs \cup {""}}
    ELSE IF engine = "trendmicro"
    THEN {TrendMicroManualScan(run, code, out) :
            run \in RunKinds, code \in ExitCodes, out \in TMOutputs}
    ELSE {MockScan(Abs(req[r].filePath) \in files, Contains(b, EICARPattern)) :
            b \in (IF fileBytes[r] = AnyBytes THEN MockContents
                   ELSE {fileBytes[r]})}

\* Scan, step 1: result, err := driver.ManualScan(filePath), and the branch
\* on it: a decisive result is adopted, anything else enters the wait loop.
ScanManual(r) ==
    /\ pc[r] = "manual"
    /\ \E res \in ManualScanResults(r) :
          /\ result' = [result EXCEPT ![r] = res]
          /\ IF IsDecisive(res)
             THEN /\ finalStatus' = [finalStatus EXCEPT ![r] = res.Status]
                  /\ signature' = [signature EXCEPT ![r] = res.Signature]
                  /\ pc' = [pc EXCEPT ![r] = "finalize"]
             ELSE /\ UNCHANGED <<finalStatus, signature>>
                  /\ pc' = [pc EXCEPT ![r] = "loop"]
    /\ waited' = [waited EXCEPT ![r] = 0]
    /\ UNCHANGED <<engine, cfg, cacheVars, driverVars, panicked, files, req,
                   ret, probes, obsVars>>

\* Scan, one pass of "for waited < maxWait": the Get on absPath and the
\* adoption of an infected entry, which breaks out of the loop.
ScanProbe_NoBreak(r) ==
    /\ pc[r] = "loop"
    /\ LoopContinues(waited[r], MaxWait(cfg, req[r].size))
    /\ LET g == Get(detections, ScanAbsPath(req[r].filePath))
       IN  /\ detections' = g.cache
           /\ probes' = [probes EXCEPT ![r] = @ + 1]
           /\ IF g.found /\ g.cached.Status = "infected"
              THEN /\ finalStatus' = [finalStatus EXCEPT ![r] = "infected"]
                   /\ signature' = [signature EXCEPT ![r] = g.cached.Signature]
              ELSE UNCHANGED <<finalStatus, signature>>
           /\ pc' = [pc EXCEPT ![r] = "sleep"]
    /\ UNCHANGED <<engine, cfg, ttl, stopCh, sweeper, nextTick, now, driverVars,
                   panicked, files, req, result, waited, ret, obsVars>>

ScanProbe(r) ==
    /\ pc[r] = "loop"
    /\ LoopContinues(waited[r], MaxWait(cfg, req[r].size))
    /\ LET g == Get(detections, ScanAbsPath(req[r].filePath))
       IN  /\ detections' = g.cache
           /\ probes' = [probes EXCEPT ![r] = @ + 1]
           /\ IF g.found /\ g.cached.Status = "infected"
              THEN /\ finalStatus' = [finalStatus EXCEPT ![r] = "infected"]
                   /\ signature' = [signature EXCEPT ![r] = g.cached.Signature]
                   /\ pc' = [pc EXCEPT ![r] = "finalize"]
              ELSE /\ UNCHANGED <<finalStatus, signature>>
                   /\ pc' = [pc EXCEPT ![r] = "sleep"]
    /\ UNCHANGED <<engine, cfg, ttl, stopCh, sweeper, nextTick, now, driverVars,
                   panicked, files, req, result, waited, ret, obsVars>>

\* time.Sleep(retryDelay); waited += retryDelay
ScanSleep(r) ==
    /\ pc[r] = "sleep"
    /\ waited' = [waited EXCEPT ![r] = @ + retryDelay]
    /\ pc' = [pc EXCEPT ![r] = "loop"]
    /\ UNCHANGED <<engine, cfg, cacheVars, driverVars, panicked, files, req,
                   result, finalStatus, signature, ret, probes, obsVars>>

\* The loop ended with finalStatus == "": Scan returns the error
\* "scan failed: file not accessible and no RTS detection found".
ScanExhausted_Clean(r) ==
    /\ pc[r] = "loop"
    /\ ~LoopContinues(waited[r], MaxWait(cfg, req[r].size))
    /\ finalStatus' = [finalStatus EXCEPT ![r] = "clean"]
    /\ pc' = [pc EXCEPT ![r] = "finalize"]
    /\ UNCHANGED <<engine, cfg, cacheVars, driverVars, panicked, files, req,
                   result, waited, signature, ret, probes, obsVars>>

ScanExhausted(r) ==
    /\ pc[r] = "loop"
    /\ ~LoopContinues(waited[r], MaxWait(cfg, req[r].size))
    /\ ret' = [ret EXCEPT ![r] = "error"]
    /\ pc' = [pc EXCEPT ![r] = "done"]
    /\ UNCHANGED <<engine, cfg, cacheVars, driverVars, panicked, files, req,
                   result, waited, finalStatus, signature, probes, obsVars>>

\* Scan, step 3 and the return: deleteFile, the response, RecordScan. With
\* fault, os.Remove of the existing file fails (not with ErrNotExist) and the
\* file stays.
Finalize(r, fault) ==
    /\ pc[r] = "finalize"
    /\ fault => Abs(req[r].filePath) \in files
    /\ files' = IF fault THEN files ELSE deleteFile(files, req[r].filePath)
    /\ ret' = [ret EXCEPT ![r] = ScanReturn(deleteFileErr(files, req[r].filePath, fault))]
    /\ samples' = [samples EXCEPT ![r] =
                      IF ret'[r] = "ok" THEN RecordScan(@, engine, finalStatus[r])
                      ELSE @]
    /\ pc' = [pc EXCEPT ![r] = "done"]
    /\ UNCHANGED <<engine, cfg, cacheVars, driverVars, panicked, req, result,
                   waited, finalStatus, signature, probes, foundSincePut, swept,
                   ioVars, lifeVars, apiVars, allowVars, fileBytes>>

\* The same where the removal of an existing file succeeds.
ScanFinalize(r) == Finalize(r, FALSE)

\* The same with any outcome of the removal.
ScanFinalizeFault(r) == \E fault \in BOOLEAN : Finalize(r, fault)

\* handleScan after Scan returned: on an error RecordScan(engine, "error")
\* and the 500, else the 200; the goroutine ends. keep tells whether the
\* samples of the request stay on record after it.
Reply(r, keep) ==
    /\ pc[r] = "done"
    /\ samples' = [samples EXCEPT ![r] =
                      IF ~keep THEN << >>
                      ELSE IF ret[r] = "error" THEN RecordScan(@, engine, "error")
                      ELSE @]
    /\ pc' = [pc EXCEPT ![r] = "idle"]
    /\ req' = [req EXCEPT ![r] = NoRequest]
    /\ result' = [result EXCEPT ![r] = NoResult]
    /\ waited' = [waited EXCEPT ![r] = 0]
    /\ finalStatus' = [finalStatus EXCEPT ![r] = ""]
    /\ signature' = [signature EXCEPT ![r] = ""]
    /\ ret' = [ret EXCEPT ![r] = "none"]
    /\ probes' = [probes EXCEPT ![r] = 0]
    /\ fileBytes' = [fileBytes EXCEPT ![r] = AnyBytes]
    /\ UNCHANGED <<engine, cfg, cacheVars, driverVars, panicked, files,
                   foundSincePut, swept, ioVars, lifeVars, apiVars, allowVars>>

HandleScanReply(r) == Reply(r, FALSE)

HandleScanRespond(r) == Reply(r, TRUE)

(***************************************************************************)
(* The environment of a request: the RTS engine and the tailer             *)
(***************************************************************************)
\* The ticker of cleanupLoop has fired and its cleanup has not run yet. The
\* cleanup is taken to run at its tick instant: the clock does not advance
\* and no cache call of that instant is served before it.
SweepDue == sweeper = "running" /\ now >= nextTick

\* What processLogLine stores for a detection line of the active engine:
\* ClamAV keeps the logged signature, Trend Micro stores "virus".
LoggedSignatures == IF engine = "trendmicro" THEN {"virus"} ELSE LogSigs

\* watchLog receives a detection line and processLogLine adds it to the cache.
TailerAdd(p, sig) ==
    /\ ~panicked /\ ~SweepDue
    /\ tailer = "running"
    /\ sig \in LoggedSignatures
    /\ detections' = Add(detections, Abs(p),
                         [FilePath |-> p, Status |-> "infected",
                          Signature |-> sig, Timestamp |-> 0], now)
    /\ foundSincePut' = [foundSincePut EXCEPT ![Abs(p)] = 0]
    /\ UNCHANGED <<engine, cfg, ttl, stopCh, sweeper, nextTick, now, driverVars,
                   panicked, files, reqVars, swept, ioVars, extVars>>

\* The on-access scanner quarantines (removes) a file of the scan directory.
RTSQuarantine(p) ==
    /\ p \in files
    /\ files' = files \ {p}
    /\ UNCHANGED <<engine, cfg, cacheVars, driverVars, panicked, reqVars, obsVars>>

Next ==
    \/ \E r \in Requests : HandleScanSave(r)
    \/ \E r \in Requests : ScanManual(r)
    \/ \E r \in Requests : ScanProbe(r)
    \/ \E r \in Requests : ScanSleep(r)
    \/ \E r \in Requests : ScanExhausted(r)
    \/ \E r \in Requests : ScanFinalize(r)
    \/ \E r \in Requests : HandleScanReply(r)
    \/ \E p \in LogPaths, sig \in LogSigs \cup {"virus"} : TailerAdd(p, sig)
    \/ \E p \in AbsPaths : RTSQuarantine(p)

Spec == Init /\ [][Next]_vars

(***************************************************************************)
(* SpecCache: the cache under a clock, and the lifecycle                   *)
(***************************************************************************)
\* After Scanner.New and Scanner.Start, for any ttl given to NewDetectionCache.
InitCache ==
    /\ engine \in Engines
    /\ cfg = MockConfig
    /\ detections = << >>
    /\ ttl \in {NewDetectionCache(a) : a \in TTLArgs}
    /\ stopCh = "open"
    /\ sweeper = "running"
    /\ nextTick = DefaultCleanupInterval
    /\ now = 0
    /\ driverCtx = "active"
    /\ tailer \in (IF engine = "mock" THEN {"none"} ELSE {"none", "running"})
    /\ panicked = FALSE
    /\ files = {}
    /\ pc = [r \in Requests |-> "idle"]
    /\ req = [r \in Requests |-> NoRequest]
    /\ result = [r \in Requests |-> NoResult]
    /\ waited = [r \in Requests |-> 0]
    /\ finalStatus = [r \in Requests |-> ""]
    /\ signature = [r \in Requests |-> ""]
    /\ ret = [r \in Requests |-> "none"]
    /\ probes = [r \in Requests |-> 0]
    /\ foundSincePut = [p \in AbsPaths |-> 0]
    /\ swept = {}
    /\ lastCall = NoCall
    /\ line = << >>
    /\ scanIn = NoScan
    /\ scanOut = NoResult
    /\ InitLife /\ InitAPI /\ InitAllow /\ InitBytes

\* The clock advances; not past a tick whose cleanup is still to run.
ClockTick ==
    /\ ~panicked /\ ~SweepDue
    /\ now + ClockStep <= MaxTime
    /\ now' = now + ClockStep
    /\ swept' = {}
    /\ UNCHANGED <<engine, cfg, detections, ttl, stopCh, sweeper, nextTick,
                   driverVars, panicked, files, reqVars, foundSincePut, ioVars, extVars>>

\* cleanupLoop, case <-ticker.C: c.cleanup()
SweeperTick ==
    /\ ~panicked
    /\ sweeper = "running"
    /\ now >= nextTick
    /\ detections' = cleanup(detections, now, ttl)
    /\ swept' = swept \cup (DOMAIN detections \ DOMAIN detections')
    /\ nextTick' = nextTick + DefaultCleanupInterval
    /\ UNCHANGED <<engine, cfg, ttl, stopCh, sweeper, now, driverVars, panicked,
                   files, reqVars, foundSincePut, ioVars, extVars>>

\* cleanupLoop, case <-c.stopCh: return
SweeperExit ==
    /\ ~panicked
    /\ sweeper = "running"
    /\ stopCh = "closed"
    /\ sweeper' = "exited"
    /\ UNCHANGED <<engine, cfg, detections, ttl, stopCh, nextTick, now,
                   driverVars, panicked, files, reqVars, obsVars>>

\* A caller of c.Add (a tailer, or a direct client of the cache).
CacheAdd(p, sig) ==
    /\ ~panicked /\ ~SweepDue
    /\ detections' = Add(detections, p,
                         [FilePath |-> p, Status |-> "infected",
                          Signature |-> sig, Timestamp |-> 0], now)
    /\ foundSincePut' = [foundSincePut EXCEPT ![p] = 0]
    /\ UNCHANGED <<engine, cfg, ttl, stopCh, sweeper, nextTick, now, driverVars,
                   panicked, files, reqVars, swept, ioVars, extVars>>

\* One of any number of concurrent callers of c.Get(p).
TakerGet(p) ==
    /\ ~panicked /\ ~SweepDue
    /\ LET g == Get(detections, p)
       IN  /\ detections' = g.cache
           /\ foundSincePut' =
                 [foundSincePut EXCEPT ![p] = IF g.found THEN @ + 1 ELSE @]
    /\ UNCHANGED <<engine, cfg, ttl, stopCh, sweeper, nextTick, now, driverVars,
                   panicked, files, reqVars, swept, ioVars, extVars>>

\* close(c.stopCh): closing a closed channel is a runtime panic.
CloseStopCh_Guarded(ch) == [stopCh |-> "closed", panic |-> FALSE]

CloseStopCh(ch) ==
    [stopCh |-> "closed", panic |-> (ch = "closed")]

\* context.CancelFunc: calls after the first do nothing.
Cancel(ctx) == "cancelled"

\* DetectionCache.Stop
CacheStop ==
    /\ ~panicked
    /\ stopCh' = CloseStopCh(stopCh).stopCh
    /\ panicked' = CloseStopCh(stopCh).panic
    /\ UNCHANGED <<engine, cfg, detections, ttl, sweeper, nextTick, now,
                   driverVars, files, reqVars, obsVars>>

\* ClamAVDriver.Stop / TrendMicroDriver.Stop: d.cancel(); MockDriver.Stop: nothing.
DriverStop ==
    /\ ~panicked
    /\ driverCtx' = IF engine = "mock" THEN driverCtx ELSE Cancel(driverCtx)
    /\ UNCHANGED <<engine, cfg, cacheVars, tailer, panicked, files, reqVars,
                   obsVars>>

\* Scanner.Stop: s.drivers[s.activeEngine].Stop(); s.detectionCache.Stop()
ScannerStop ==
    /\ ~panicked
    /\ driverCtx' = IF engine = "mock" THEN driverCtx ELSE Cancel(driverCtx)
    /\ stopCh' = CloseStopCh(stopCh).stopCh
    /\ panicked' = CloseStopCh(stopCh).panic
    /\ UNCHANGED <<engine, cfg, detections, ttl, sweeper, nextTick, now,
                   tailer, files, reqVars, obsVars>>

\* watchLog, case <-d.ctx.Done(): t.Stop(); return
TailerExit_Ignore ==
    /\ ~panicked
    /\ tailer = "running"
    /\ driverCtx = "cancelled"
    /\ UNCHANGED vars

TailerExit ==
    /\ ~panicked
    /\ tailer = "running"
    /\ driverCtx = "cancelled"
    /\ tailer' = "exited"
    /\ UNCHANGED <<engine, cfg, cacheVars, driverCtx, panicked, files, reqVars,
                   obsVars>>

NextCache ==
    \/ ClockTick
    \/ SweeperTick
    \/ SweeperExit
    \/ \E p \in AbsPaths, sig \in CacheSigs : CacheAdd(p, sig)
    \/ \E p \in LogPaths, sig \in LogSigs \cup {"virus"} : TailerAdd(p, sig)
    \/ \E p \in AbsPaths : TakerGet(p)
    \/ CacheStop
    \/ DriverStop
    \/ ScannerStop
    \/ TailerExit

SpecCache == InitCache /\ [][NextCache]_vars

(***************************************************************************)
(* SpecClient: direct clients of the cache (Add, Get, Peek) under a clock  *)
(***************************************************************************)
\* A client calls c.Add(p, &Detection{...}).
ClientAdd(p, sig) ==
    /\ ~SweepDue
    /\ detections' = Add(detections, p,
                         [FilePath |-> p, Status |-> "infected",
                          Signature |-> sig, Timestamp |-> 0], now)
    /\ lastCall' = [op |-> "Add", key |-> p, had |-> p \in DOMAIN detections,
                    found |-> FALSE, cached |-> NoDetection]
    /\ UNCHANGED <<engine, cfg, ttl, stopCh, sweeper, nextTick, now, driverVars,
                   panicked, files, reqVars, foundSincePut, swept, line,
                   scanIn, scanOut, extVars>>

\* A client calls c.Get(p) and keeps what it returned.
ClientGet(p) ==
    /\ ~SweepDue
    /\ LET g == Get(detections, p)
       IN  /\ detections' = g.cache
           /\ lastCall' = [op |-> "Get", key |-> p,
                           had |-> p \in DOMAIN detections,
                           found |-> g.found, cached |-> g.cached]
    /\ UNCHANGED <<engine, cfg, ttl, stopCh, sweeper, nextTick, now, driverVars,
                   panicked, files, reqVars, foundSincePut, swept, line,
                   scanIn, scanOut, extVars>>

\* A client calls c.Peek(p) and keeps what it returned.
ClientPeek(p) ==
    /\ ~SweepDue
    /\ LET k == Peek(detections, p)
       IN  lastCall' = [op |-> "Peek", key |-> p,
                        had |-> p \in DOMAIN detections,
                        found |-> k.found, cached |-> k.cached]
    /\ UNCHANGED <<engine, cfg, cacheVars, driverVars, panicked, files, reqVars,
                   foundSincePut, swept, line, scanIn, scanOut,
                   extVars>>

NextClient ==
    \/ ClockTick
    \/ SweeperTick
    \/ \E p \in AbsPaths, sig \in CacheSigs : ClientAdd(p, sig)
    \/ \E p \in AbsPaths : ClientGet(p)
    \/ \E p \in AbsPaths : ClientPeek(p)

SpecClient == Init /\ [][NextClient]_vars

(***************************************************************************)
(* SpecDrivers: the drivers alone, the tailer reading log lines and        *)
(* ManualScan running the on-demand binary                                 *)
(***************************************************************************)
\* watchLog, case line := <-t.Lines: d.processLogLine(line.Text)
TailerRead(l) ==
    /\ tailer = "running"
    /\ l \in (IF engine = "clamav" THEN ClamAVLines ELSE TMLines)
    /\ line' = l
    /\ UNCHANGED <<engine, cfg, ttl, stopCh, sweeper, nextTick, now, driverVars,
                   panicked, files, reqVars, foundSincePut, swept, lastCall,
                   scanIn, scanOut, extVars>>
    /\ detections' = IF engine = "clamav"
                     THEN ClamAVProcessLogLine(detections, l, now)
                     ELSE TrendMicroProcessLogLine(detections, l, now)

\* driver.ManualScan(filePath) of the active engine, with how cmd.Run()
\* ended and what the binary wrote to stdout.
DriverManualScan ==
    /\ \E run \in RunKinds :
       \E code \in (IF run = "ExitError" THEN ExitCodes ELSE {0}) :
          LET exitCode == IF run = "ExitError" THEN code ELSE 0
          IN  \/ /\ engine = "clamav"
                 /\ \E stdout \in ClamAVStdouts :
                       /\ scanIn' = [run |-> run, code |-> exitCode,
                                     stdout |-> stdout, out |-> NoOutput]
                       /\ scanOut' = ClamAVManualScan(run, code,
                                                      FoundSignature(stdout))
              \/ /\ engine = "trendmicro"
                 /\ \E out \in TMOutputs :
                       /\ scanIn' = [run |-> run, code |-> exitCode,
                                     stdout |-> << >>, out |-> out]
                       /\ scanOut' = TrendMicroManualScan(run, code, out)
              \/ /\ engine = "mock"
                 /\ run = "nil"
                 /\ \E readable \in BOOLEAN, eicar \in BOOLEAN :
                       /\ scanIn' = [run |-> IF readable THEN "nil" ELSE "other",
                                     code |-> 0, stdout |-> << >>,
                                     out |-> [NoOutput EXCEPT !.keyword = eicar]]
                       /\ scanOut' = MockScan(readable, eicar)
    /\ UNCHANGED <<engine, cfg, cacheVars, driverVars, panicked, files, reqVars,
                   foundSincePut, swept, lastCall, line, extVars>>

NextDrivers ==
    \/ \E l \in ClamAVLines \cup TMLines : TailerRead(l)
    \/ DriverManualScan

SpecDrivers == Init /\ [][NextDrivers]_vars

(***************************************************************************)
(* SpecLife: from before Scanner.Start, with the RTS log as a file that    *)
(* the engine appends to, and one client sending scan requests             *)
(***************************************************************************)
\* MaxLog bounds the number of lines the log file holds.
MaxLog == 2

\* What the on-access engine writes: a detection of a file named by its
\* absolute or by a relative path, and a line that is no detection.
LogLines ==
    IF engine = "clamav"
    THEN {<<"/", "up/a", ":", " ", "SigA", " ", "FOUND">>,
          <<"up/a", ":", " ", "SigA", " ", "FOUND">>,
          <<"/", "up/a", ":", " ", "OK">>}
    ELSE IF engine = "trendmicro"
    THEN {<<"[SCTRL]", " ", "(", "0000-0000", ",", " ", "/", "up/a", ")", " ",
            "virus found:", " ", "2">>,
          <<"[SCTRL]", " ", "(", "0000-0000", ",", " ", "/", "up/a", ")", " ",
            "clean">>}
    ELSE {}

\* The log as Start can find it: empty, or holding earlier detections.
LogHistories ==
    IF engine = "clamav"
    THEN {<< >>, <<<<"/", "up/a", ":", " ", "SigA", " ", "FOUND">>>>}
    ELSE IF engine = "trendmicro"
    THEN {<< >>, <<<<"[SCTRL]", " ", "(", "0000-0000", ",", " ", "/", "up/a",
                    ")", " ", "virus found:", " ", "2">>>>}
    ELSE {<< >>}

\* After Scanner.New, before Scanner.Start.
InitLifecycle ==
    /\ engine \in Engines
    /\ cfg = IF engine = "mock" THEN MockConfig
             ELSE [RTSCacheBaseDelay |-> MaxBaseDelay,
                   RTSCacheDelayPerMB |-> MaxDelayPerMB]
    /\ detections = << >>
    /\ ttl = NewDetectionCache(DefaultTTL)
    /\ stopCh = "open"
    /\ sweeper = "running"
    /\ nextTick = DefaultCleanupInterval
    /\ now = 0
    /\ driverCtx = "active"
    /\ tailer = "none"
    /\ panicked = FALSE
    /\ files = {}
    /\ pc = [r \in Requests |-> "idle"]
    /\ req = [r \in Requests |-> NoRequest]
    /\ result = [r \in Requests |-> NoResult]
    /\ waited = [r \in Requests |-> 0]
    /\ finalStatus = [r \in Requests |-> ""]
    /\ signature = [r \in Requests |-> ""]
    /\ ret = [r \in Requests |-> "none"]
    /\ probes = [r \in Requests |-> 0]
    /\ foundSincePut = [p \in AbsPaths |-> 0]
    /\ swept = {}
    /\ lastCall = NoCall
    /\ line = << >>
    /\ scanIn = NoScan
    /\ scanOut = NoResult
    /\ getwd \in {"ok", "gone"}
    /\ logState \in (IF engine = "mock" THEN {"missing"}
                     ELSE {"missing", "unreadable", "readable"})
    /\ rtsLog \in (IF logState = "missing" THEN {<< >>} ELSE LogHistories)
    /\ tailPos = 0
    /\ start = NoStart
    /\ InitAPI /\ InitAllow /\ InitBytes

\* Driver.Start, as Scanner.Start calls it. ClamAV and Trend Micro: os.Stat
\* of the log; on an error a warning and nil, else go d.watchLog() and nil.
\* Mock: nil.
DriverStart_ErrorWithoutLog ==
    /\ ~start.called
    /\ LET statErr == engine # "mock" /\ logState = "missing"
       IN  /\ start' = [Started(statErr, Len(rtsLog)) EXCEPT !.err = statErr]
           /\ tailer' = IF engine = "mock" \/ statErr THEN "none" ELSE "opening"
    /\ UNCHANGED <<engine, cfg, cacheVars, driverCtx, panicked, files, reqVars,
                   foundSincePut, swept, ioVars, getwd, logState, rtsLog,
                   tailPos, apiVars, allowVars, fileBytes, samples>>

DriverStart ==
    /\ ~start.called
    /\ LET statErr == engine # "mock" /\ logState = "missing"
       IN  /\ start' = Started(statErr, Len(rtsLog))
           /\ tailer' = IF engine = "mock" \/ statErr THEN "none" ELSE "opening"
    /\ UNCHANGED <<engine, cfg, cacheVars, driverCtx, panicked, files, reqVars,
                   foundSincePut, swept, ioVars, getwd, logState, rtsLog,
                   tailPos, apiVars, allowVars, fileBytes, samples>>

\* tail.SeekInfo{Offset: 0, Whence: os.SEEK_END}: the first line delivered
\* is the first one written after the end of the file as TailFile found it.
TailStart_FromBeginning(log) == 0

TailStart(log) == Len(log)

\* watchLog, up to its loop: tail.TailFile with MustExist; an error is logged
\* and the goroutine returns.
WatchLogOpen ==
    /\ tailer = "opening"
    /\ IF logState = "readable"
       THEN /\ tailer' = "running"
            /\ tailPos' = TailStart(rtsLog)
       ELSE /\ tailer' = "exited"
            /\ UNCHANGED tailPos
    /\ UNCHANGED <<engine, cfg, cacheVars, driverCtx, panicked, files, reqVars,
                   foundSincePut, swept, ioVars, getwd, logState, rtsLog,
                   start, apiVars, allowVars, fileBytes, samples>>

\* The on-access engine creates its log (it was installed or started late).
LogCreate ==
    /\ engine # "mock"
    /\ logState = "missing"
    /\ logState' = "readable"
    /\ UNCHANGED <<engine, cfg, cacheVars, driverVars, panicked, files, reqVars,
                   foundSincePut, swept, ioVars, getwd, rtsLog, tailPos,
                   start, apiVars, allowVars, fileBytes, samples>>

\* The on-access engine appends a line to its log.
LogAppend(l) ==
    /\ logState # "missing"
    /\ l \in LogLines
    /\ Len(rtsLog) < MaxLog
    /\ rtsLog' = Append(rtsLog, l)
    /\ UNCHANGED <<engine, cfg, cacheVars, driverVars, panicked, files, reqVars,
                   foundSincePut, swept, ioVars, getwd, logState, tailPos,
                   start, apiVars, allowVars, fileBytes, samples>>

\* watchLog, case line := <-t.Lines: the next line of the file goes to
\* d.processLogLine.
TailerNext ==
    /\ tailer = "running"
    /\ tailPos < Len(rtsLog)
    /\ tailPos' = tailPos + 1
    /\ line' = rtsLog[tailPos + 1]
    /\ UNCHANGED <<engine, cfg, ttl, stopCh, sweeper, nextTick, now, driverVars,
                   panicked, files, reqVars, foundSincePut, swept, lastCall,
                   scanIn, scanOut, getwd, logState, rtsLog, start, apiVars,
                   allowVars, fileBytes, samples>>
    /\ detections' = IF engine = "clamav"
                     THEN ClamAVProcessLogLine(detections, line', now)
                     ELSE TrendMicroProcessLogLine(detections, line', now)

\* The client whose requests the server takes once Start has returned.
Client == "r1"

NextLife ==
    \/ DriverStart
    \/ WatchLogOpen
    \/ LogCreate
    \/ \E l \in LogLines : LogAppend(l)
    \/ TailerNext
    \/ start.called /\ HandleScanSave(Client)
    \/ ScanManual(Client)
    \/ ScanProbe(Client)
    \/ ScanSleep(Client)
    \/ ScanExhausted(Client)
    \/ ScanFinalize(Client)
    \/ HandleScanReply(Client)

SpecLife == InitLifecycle /\ [][NextLife]_vars

(***************************************************************************)
(* SpecAPI: the HTTP server, one request served at a time, Scanner.Scan    *)
(* taken as one call                                                       *)
(***************************************************************************)
\* After API.New: with auth enabled the allowlist file has been loaded.
InitServer ==
    /\ InitScanner /\ InitLife /\ InitBytes
    /\ authEnabled \in BOOLEAN
    /\ hreq = NoRequestHTTP
    /\ resp = NoResponse
    /\ allowFile = IF authEnabled
                   THEN [readErr |-> FALSE, yaml |-> TRUE,
                         allowlist |-> <<"prod/ns1/sa1">>]
                   ELSE EmptyFile
    /\ entries = load(allowFile, {})
    /\ events = 0
    /\ watcher = NoLoad
    /\ writer = NoWrite

\* GetUploadPath(fileID, originalName) of the request being served.
UploadPath == "/up/a"

\* The Authorization header of a request and, where the middleware calls
\* the auth service, its answer.
AuthParts ==
    {hp \in Headers \X AuthAnswers :
        \/ authEnabled /\ TrimPrefix(hp[1], "Bearer ") # hp[1]
        \/ hp[2] = NoAnswer /\ (authEnabled \/ hp[1] = << >>)}

\* The upload of a request to POST /scan with how saving it goes and, where
\* the handler calls Scan, what Scan returns.
NoUpload ==
    [form |-> [multipart |-> FALSE, fields |-> {}], size |-> 0, save |-> "ok",
     scan |-> NoResult]
Uploads ==
    {u \in [form : Forms, size : UploadSizes, save : SaveOutcomes,
            scan : ScanReturns \cup {NoResult}] :
        LET usable == u.form.multipart /\ "file" \in u.form.fields
        IN  /\ ~usable => u.save = "ok"
            /\ (usable /\ u.save = "ok") <=> (u.scan # NoResult)}

\* Routes().ServeHTTP: the middleware when auth is enabled, then the mux.
ServeHTTP(path, hp, u) ==
    LET mw == IF authEnabled
              THEN MiddlewareHandler(path, hp[1], hp[2], entries)
              ELSE NoMiddleware
        h == IF path = "/api/v1/scan"
             THEN handleScan(u.form, u.size, u.save, u.scan, engine)
             ELSE IF path = "/api/v1/health"
             THEN handleHealth(CheckHealth(engine, logState), engine)
             ELSE IF path = "/api/v1/engines"
             THEN handleEngines(GetEngineInfo(engine), engine)
             ELSE handleLive
    IN  /\ hreq' = [path |-> path, header |-> hp[1], answer |-> hp[2],
                    form |-> u.form, size |-> u.size, save |-> u.save,
                    scan |-> u.scan]
        /\ resp' = IF mw.next
                   THEN [status |-> h.status, body |-> h.body, next |-> TRUE,
                         contacted |-> mw.contacted, identity |-> mw.identity,
                         created |-> h.created, removed |-> h.removed,
                         scanCalled |-> h.scanCalled, left |-> h.left]
                   ELSE [status |-> mw.status, body |-> jsonError("auth"),
                         next |-> FALSE, contacted |-> mw.contacted,
                         identity |-> mw.identity, created |-> FALSE,
                         removed |-> FALSE, scanCalled |-> FALSE,
                         left |-> FALSE]
        /\ files' = IF mw.next /\ h.left THEN files \cup {UploadPath} ELSE files
        /\ UNCHANGED <<engine, cfg, cacheVars, driverVars, panicked, reqVars,
                       foundSincePut, swept, ioVars, lifeVars, authEnabled,
                       allowVars, fileBytes, samples>>

\* Whether the request reaches the mux.
Passes(path, hp) ==
    ~authEnabled \/ MiddlewareHandler(path, hp[1], hp[2], entries).next

ServeScan ==
    \E hp \in AuthParts :
       \E u \in (IF Passes("/api/v1/scan", hp) THEN Uploads ELSE {NoUpload}) :
          ServeHTTP("/api/v1/scan", hp, u)

ServeHealth == \E hp \in AuthParts : ServeHTTP("/api/v1/health", hp, NoUpload)

ServeEngines == \E hp \in AuthParts : ServeHTTP("/api/v1/engines", hp, NoUpload)

ServeLive == \E hp \in AuthParts : ServeHTTP("/api/v1/live", hp, NoUpload)

NextAPI ==
    \/ ServeScan
    \/ ServeHealth
    \/ ServeEngines
    \/ ServeLive

SpecAPI == InitServer /\ [][NextAPI]_vars

(***************************************************************************)
(* SpecMock: the orchestrator over the mock driver, the bytes of every     *)
(* upload kept                                                             *)
(***************************************************************************)
\* With MockConfig maxWait is 0: "for waited < maxWait" has no pass, so the
\* probe and the sleep are no steps of this specification.
InitMock == Init /\ engine = "mock"

NextMock ==
    \/ \E r \in Requests : HandleScanSaveBytes(r)
    \/ \E r \in Requests : ScanManual(r)
    \/ \E r \in Requests : ScanExhausted(r)
    \/ \E r \in Requests : ScanFinalize(r)
    \/ \E r \in Requests : HandleScanReply(r)
    \/ \E p \in AbsPaths : RTSQuarantine(p)

SpecMock == InitMock /\ [][NextMock]_vars

(***************************************************************************)
(* SpecSweep: one client's requests, the tailer and the sweeper under the  *)
(* clock; time passes and the ticker's cleanup is scheduled                *)
(***************************************************************************)
\* ClamAV with its tailer running; the engine logs detections of one file.
InitSweep ==
    Init /\ engine = "clamav" /\ tailer = "running"
         /\ cfg.RTSCacheBaseDelay = MaxBaseDelay

SweptPath == "/up/a"

NextSweep ==
    \/ ClockTick
    \/ SweeperTick
    \/ \E sig \in LogSigs : TailerAdd(SweptPath, sig)
    \/ HandleScanSave(Client)
    \/ ScanManual(Client)
    \/ ScanProbe(Client)
    \/ ScanSleep(Client)
    \/ ScanExhausted(Client)
    \/ ScanFinalize(Client)
    \/ HandleScanReply(Client)

SpecSweep ==
    InitSweep /\ [][NextSweep]_vars /\ WF_vars(ClockTick) /\ WF_vars(SweeperTick)

(***************************************************************************)
(* SpecRequest: one client's requests with every outcome of the file       *)
(* removal, the samples of a request kept after its response               *)
(***************************************************************************)
NextRequest ==
    \/ HandleScanSave(Client)
    \/ ScanManual(Client)
    \/ ScanProbe(Client)
    \/ ScanSleep(Client)
    \/ ScanExhausted(Client)
    \/ ScanFinalizeFault(Client)
    \/ HandleScanRespond(Client)
    \/ \E p \in LogPaths, sig \in LogSigs \cup {"virus"} : TailerAdd(p, sig)
    \/ \E p \in AbsPaths : RTSQuarantine(p)

SpecRequest == Init /\ [][NextRequest]_vars

(***************************************************************************)
(* SpecStop: the driver's lifecycle with Stop, the engine still logging    *)
(* and one client's request in flight; the goroutines are scheduled        *)
(***************************************************************************)
\* Trend Micro with its log in place at Start; what the engine logged before
\* Start is the history the log starts with.
InitStop ==
    InitLifecycle /\ engine = "trendmicro" /\ getwd = "ok"
                  /\ logState = "readable"

\* One step of the goroutine inside Scanner.Scan.
ScanStep(r) ==
    \/ ScanManual(r)
    \/ ScanProbe(r)
    \/ ScanSleep(r)
    \/ ScanExhausted(r)
    \/ ScanFinalize(r)

NextStop ==
    \/ DriverStart
    \/ WatchLogOpen
    \/ \E l \in LogLines : start.called /\ LogAppend(l)
    \/ TailerNext
    \/ start.called /\ DriverStop
    \/ TailerExit
    \/ start.called /\ HandleScanSave(Client)
    \/ ScanStep(Client)
    \/ HandleScanReply(Client)

SpecStop ==
    /\ InitStop /\ [][NextStop]_vars
    /\ WF_vars(WatchLogOpen) /\ WF_vars(TailerExit) /\ WF_vars(ScanStep(Client))

(***************************************************************************)
(* SpecAllow: the allowlist after NewAllowlist and Watch, its file being   *)
(* rewritten in place                                                      *)
(***************************************************************************)
\* NewAllowlist loaded the file, which held valid content, and Watch started
\* the goroutine.
InitAllowlist ==
    /\ InitScanner /\ InitLife /\ InitAPI /\ InitBytes
    /\ allowFile = [readErr |-> FALSE, yaml |-> TRUE,
                    allowlist |-> <<"prod/ns1/sa1">>]
    /\ entries = load(allowFile, {})
    /\ events = 0
    /\ watcher = NoLoad
    /\ writer = NoWrite

\* os.WriteFile, first half: the file is opened with O_TRUNC.
WriterTruncate(data) ==
    /\ writer.in = "idle"
    /\ data # allowFile
    /\ writer' = [in |-> "truncated", data |-> data]
    /\ allowFile' = EmptyFile
    /\ events' = Notify(events)
    /\ UNCHANGED <<engine, cfg, cacheVars, driverVars, panicked, files, reqVars,
                   foundSincePut, swept, ioVars, lifeVars, apiVars, entries,
                   watcher, fileBytes, samples>>

\* os.WriteFile, second half: the data are written and the file is closed.
WriterWrite ==
    /\ writer.in = "truncated"
    /\ allowFile' = writer.data
    /\ events' = Notify(events)
    /\ writer' = NoWrite
    /\ UNCHANGED <<engine, cfg, cacheVars, driverVars, panicked, files, reqVars,
                   foundSincePut, swept, ioVars, lifeVars, apiVars, entries,
                   watcher, fileBytes, samples>>

\* The goroutine of Watch, case event := <-watcher.Events with Op Write:
\* a.load() up to the return of os.ReadFile.
WatcherEvent ==
    /\ watcher.in = "select"
    /\ events > 0
    /\ events' = events - 1
    /\ watcher' = [in |-> "load", data |-> allowFile]
    /\ UNCHANGED <<engine, cfg, cacheVars, driverVars, panicked, files, reqVars,
                   foundSincePut, swept, ioVars, lifeVars, apiVars, allowFile,
                   entries, writer, fileBytes, samples>>

\* a.load(), from yaml.Unmarshal to the return.
WatcherStore ==
    /\ watcher.in = "load"
    /\ entries' = load(watcher.data, entries)
    /\ watcher' = NoLoad
    /\ UNCHANGED <<engine, cfg, cacheVars, driverVars, panicked, files, reqVars,
                   foundSincePut, swept, ioVars, lifeVars, apiVars, allowFile,
                   events, writer, fileBytes, samples>>

NextAllow ==
    \/ \E data \in ValidFiles \cup {BadFile, EmptyFile} : WriterTruncate(data)
    \/ WriterWrite
    \/ WatcherEvent
    \/ WatcherStore

\* The goroutine of Watch is scheduled whenever it can take a step.
SpecAllow ==
    /\ InitAllowlist
    /\ [][NextAllow]_vars
    /\ WF_vars(WatcherEvent)
    /\ WF_vars(WatcherStore)

(***************************************************************************)
(* SpecAllowFault: the same, where the file can also be removed             *)
(***************************************************************************)
\* The file is unlinked: no Write or Create event, os.ReadFile fails from
\* now on, and the watch on it ends, so a later file of that name is not
\* seen.
FileRemove ==
    /\ writer.in = "idle"
    /\ ~allowFile.readErr
    /\ allowFile' = GoneFile
    /\ UNCHANGED <<engine, cfg, cacheVars, driverVars, panicked, files, reqVars,
                   foundSincePut, swept, ioVars, lifeVars, apiVars, entries,
                   events, watcher, writer, fileBytes, samples>>

NextAllowFault ==
    \/ \E data \in ValidFiles \cup {BadFile, EmptyFile} :
          ~allowFile.readErr /\ WriterTruncate(data)
    \/ WriterWrite
    \/ WatcherEvent
    \/ WatcherStore
    \/ FileRemove

SpecAllowFault == InitAllowlist /\ [][NextAllowFault]_vars


(***************************************************************************)
(* Properties                                                              *)
(***************************************************************************)
AbsPathOf(r) == Abs(req[r].filePath)
ManualInfected(r) == ~result[r].err /\ result[r].Status = "infected"
ManualClean(r) == ~result[r].err /\ result[r].Status = "clean"
Returns(r) == pc[r] # "done" /\ pc'[r] = "done"

\* The wait budget of request r, written out: base + floor(size / 1 MiB) * perMB.
Budget(r) ==
    cfg.RTSCacheBaseDelay + (req[r].size \div MiB) * cfg.RTSCacheDelayPerMB

\* C1: when Scan returns, whatever the outcome (clean, infected or the error
\* of the exhausted wait), the request's file no longer exists in the scan
\* directory.
C1_FileDeletedOnReturn ==
    [][\A r \in Requests : Returns(r) => AbsPathOf(r) \notin files']_vars

\* C2: a decisive on-demand infected(sig) is returned as infected with exactly
\* sig, and the request makes no cache probe: an entry for the same path is
\* neither read nor removed by it.
C2_FastPathInfected ==
    \A r \in Requests :
        (pc[r] \in {"finalize", "done"} /\ ManualInfected(r)) =>
            /\ finalStatus[r] = "infected"
            /\ signature[r] = result[r].Signature
            /\ probes[r] = 0
            /\ (pc[r] = "done" => ret[r] = "ok")

C2_Witness ==
    \E r \in Requests :
        /\ pc[r] = "done" /\ ManualInfected(r) /\ ret[r] = "ok"
        /\ AbsPathOf(r) \in DOMAIN detections
        /\ detections[AbsPathOf(r)].Signature # result[r].Signature

C4_Exhaustion ==
    \A r \in Requests :
        /\ ret[r] = "error" =>
              /\ waited[r] >= Budget(r)
              /\ waited[r] <= Budget(r) + retryDelay
              /\ finalStatus[r] = ""
              /\ ~(ManualInfected(r) \/ ManualClean(r))
        /\ (pc[r] = "done" /\ finalStatus[r] = "") => ret[r] = "error"

C4_Witness ==
    \E r \in Requests :
        /\ pc[r] = "done" /\ ret[r] = "error" /\ result[r].err
        /\ waited[r] > Budget(r) /\ probes[r] > 1

\* C5: an on-demand scan that succeeds with verdict clean is returned as clean
\* with no signature, whatever the tailer puts into the cache for that path.
C5_CleanIsFinal ==
    \A r \in Requests :
        (pc[r] \in {"finalize", "done"} /\ ManualClean(r)) =>
            /\ finalStatus[r] = "clean"
            /\ signature[r] = ""
            /\ probes[r] = 0
            /\ (pc[r] = "done" => ret[r] = "ok")

C5_Witness ==
    \E r \in Requests :
        /\ pc[r] = "done" /\ ManualClean(r) /\ ret[r] = "ok"
        /\ AbsPathOf(r) \in DOMAIN detections
        /\ detections[AbsPathOf(r)].Status = "infected"

C7_OwnPathOnly ==
    [][\A r \in Requests :
          pc[r] # pc'[r] =>
             /\ (finalStatus'[r] = "infected" /\ finalStatus[r] # "infected") =>
                   \/ /\ pc[r] = "manual"
                      /\ ~result'[r].err /\ result'[r].Status = "infected"
                      /\ signature'[r] = result'[r].Signature
                   \/ /\ pc[r] = "loop"
                      /\ AbsPathOf(r) \in DOMAIN detections
                      /\ detections[AbsPathOf(r)].Status = "infected"
                      /\ signature'[r] = detections[AbsPathOf(r)].Signature
             /\ \A q \in DOMAIN detections :
                   q # AbsPathOf(r) =>
                      q \in DOMAIN detections' /\ detections'[q] = detections[q]]_vars

C7_Witness ==
    \E r \in Requests :
        /\ pc[r] = "done" /\ finalStatus[r] = "infected" /\ probes[r] > 0
        /\ \E q \in DOMAIN detections : q # AbsPathOf(r)

\* C8: of any number of concurrent Get calls on a key, at most one finds the
\* entry of one Add.
C8_TakeOnce == \A p \in AbsPaths : foundSincePut[p] <= 1

C8_Witness ==
    \E p \in AbsPaths : foundSincePut[p] = 1 /\ p \notin DOMAIN detections

\* C9: calling driver.Stop() twice and cache.Stop() twice (hence
\* Scanner.Stop() twice) does not crash the process.
C9_StopTwiceNoCrash == ~panicked

C11_AtMostTTLOld ==
    [][/\ (~panicked' /\ sweeper' = "running" /\ ~SweepDue') =>
             \A p \in DOMAIN detections' :
                 now' - detections'[p].Timestamp <= ttl'
       /\ nextTick' # nextTick => 2 * (nextTick' - nextTick) = ttl]_vars

\* C11 amended: while the sweeper runs, every Detection held in the cache is
\* younger than TTL + cleanup_interval, and the sweep runs every
\* cleanup_interval (30 s, half the default TTL) whatever TTL was passed to
\* NewDetectionCache.
C11_HeldBelowTTLPlusInterval ==
    [][/\ (~panicked' /\ sweeper' = "running" /\ ~SweepDue') =>
             \A p \in DOMAIN detections' :
                 now' - detections'[p].Timestamp < ttl' + DefaultCleanupInterval
       /\ nextTick' # nextTick =>
             nextTick' - nextTick = DefaultCleanupInterval]_vars

C11_Witness ==
    /\ ~panicked /\ sweeper = "running" /\ ~SweepDue
    /\ nextTick > DefaultCleanupInterval
    /\ ttl # 2 * DefaultCleanupInterval
    /\ \E p \in DOMAIN detections : now - detections[p].Timestamp > ttl

\* C12: Add on a path that already has an entry replaces it: afterwards Peek
\* returns the newer detection with a fresh stamp, and the cache holds exactly
\* one entry for the path (one Get finds it, the next does not); the entries
\* of other paths stay as they were.
C12_AddReplaces ==
    [][\A p \in AbsPaths, sig \in CacheSigs :
          (ClientAdd(p, sig) /\ p \in DOMAIN detections) =>
             LET first == Get(detections', p)
                 second == Get(first.cache, p)
             IN  /\ Peek(detections', p).found
                 /\ Peek(detections', p).cached =
                       [FilePath |-> p, Status |-> "infected",
                        Signature |-> sig, Timestamp |-> now]
                 /\ first.found /\ first.cached = Peek(detections', p).cached
                 /\ ~second.found
                 /\ DOMAIN detections' = DOMAIN detections
                 /\ \A q \in DOMAIN detections \ {p} :
                       detections'[q] = detections[q]]_vars

C12_Witness ==
    /\ lastCall.op = "Add" /\ lastCall.had
    /\ lastCall.key \in DOMAIN detections
    /\ detections[lastCall.key].Timestamp = now /\ now > 0
    /\ detections[lastCall.key].Signature = "SigB"
    /\ \E q \in DOMAIN detections :
          q # lastCall.key /\ detections[q].Timestamp < now

\* C13: Peek leaves the cache unchanged and returns the present entry (so do
\* repeated Peeks); Get removes exactly the entry of the requested key and
\* leaves all other entries unchanged; Get or Peek of an absent key returns
\* found = false and changes nothing.
C13_PeekAndGetFrame ==
    [][\A p \in AbsPaths :
          /\ ClientPeek(p) =>
                /\ detections' = detections
                /\ lastCall'.found = (p \in DOMAIN detections)
                /\ p \in DOMAIN detections => lastCall'.cached = detections[p]
                /\ Peek(detections', p) = Peek(detections, p)
          /\ ClientGet(p) =>
                /\ lastCall'.found = (p \in DOMAIN detections)
                /\ p \in DOMAIN detections => lastCall'.cached = detections[p]
                /\ DOMAIN detections' = DOMAIN detections \ {p}
                /\ \A q \in DOMAIN detections' : detections'[q] = detections[q]
                /\ p \notin DOMAIN detections => detections' = detections]_vars

C13_Witness ==
    /\ lastCall.op = "Peek" /\ lastCall.found
    /\ lastCall.key \in DOMAIN detections
    /\ detections[lastCall.key] = lastCall.cached
    /\ \E q \in DOMAIN detections : q # lastCall.key

\* Reading a line by its tokens, apart from the drivers' regular expressions.
Has(l, tok) == \E x \in 1..Len(l) : l[x] = tok
IndexOf(l, tok) == Min({x \in 1..Len(l) : l[x] = tok})
PathBeforeColon(l) == SubSeq(l, 1, IndexOf(l, ":") - 1)
Prefixed(l) == l[1] = "[2025-11-21"
Body(l) == IF Prefixed(l) THEN SubSeq(l, 5, Len(l)) ELSE l
QuietLine(l) == ~Has(l, "FOUND") /\ ~Has(l, "virus found:") /\ ~Has(l, "moved")

\* C14: every entry the tailers put into the cache has verdict infected; a
\* ClamAV "<path>: OK" line, a Trend Micro "clean" or "failed: N" line and a
\* line of no recognized form leave the cache unchanged.
C14_OnlyInfectedCached ==
    [][\A l \in ClamAVLines \cup TMLines :
          TailerRead(l) =>
             /\ \A p \in DOMAIN detections' : detections'[p].Status = "infected"
             /\ QuietLine(l) => detections' = detections]_vars

C14_Witness ==
    /\ line # << >> /\ QuietLine(line)
    /\ DOMAIN detections # {}
    /\ \A p \in DOMAIN detections : detections[p].Status = "infected"

\* C15: when the ClamAV tailer reads "<path>: moved to '<dest>'" with no
\* FOUND line for that path seen, an infected detection with empty signature
\* is recorded for <path> (which a waiting orchestrator then adopts).
C15_MovedRecorded ==
    [][\A l \in ClamAVLines :
          (TailerRead(l) /\ Has(l, "moved")
           /\ FilepathAbs(PathBeforeColon(l)).path \notin DOMAIN detections) =>
             LET p == FilepathAbs(PathBeforeColon(l)).path
             IN  /\ p \in DOMAIN detections'
                 /\ detections'[p].Status = "infected"
                 /\ detections'[p].Signature = ""]_vars

\* C16: a ClamAV line "<p>: <sig> FOUND" is recorded as infected(p, sig) under
\* the absolute form of p, without and with the leading
\* "[YYYY-MM-DD HH:MM:SS] " prefix; the prefix is never part of the captured
\* path or of the cache key.
C16_FoundRecorded ==
    [][\A l \in ClamAVLines :
          (TailerRead(l) /\ l[Len(l)] = "FOUND") =>
             LET p == PathBeforeColon(Body(l))
                 sig == l[Len(l) - 2]
             IN  /\ DOMAIN detections' = DOMAIN detections \cup {FilepathAbs(p).path}
                 /\ detections'[FilepathAbs(p).path] =
                       [FilePath |-> Join(p), Status |-> "infected",
                        Signature |-> sig, Timestamp |-> now]]_vars

\* C17: a Trend Micro line holding "(<trace-id>, <p>) virus found:" is
\* recorded as infected for path p, spaces in p preserved, with an empty
\* signature (so a verdict adopted from the cache carries no signature).
C17_VirusFoundRecorded ==
    [][\A l \in TMLines :
          (TailerRead(l) /\ Has(l, "virus found:")) =>
             LET p == SubSeq(l, IndexOf(l, ",") + 2, IndexOf(l, ")") - 1)
             IN  /\ FilepathAbs(p).path \in DOMAIN detections'
                 /\ detections'[FilepathAbs(p).path].FilePath = Join(p)
                 /\ detections'[FilepathAbs(p).path].Status = "infected"
                 /\ detections'[FilepathAbs(p).path].Signature = ""]_vars

\* C18: ClamAV on-demand maps the exit code to the verdict for every stdout
\* content: 0 gives clean, 1 gives infected with the signature of the
\* "<path>: <sig> FOUND" line of stdout, 2 or more gives error.
C18_ExitCodeMapping ==
    (engine = "clamav" /\ scanIn.run \in {"nil", "ExitError"}) =>
        /\ ~scanOut.err
        /\ scanIn.code = 0 => scanOut.Status = "clean"
        /\ scanIn.code = 1 =>
              /\ scanOut.Status = "infected"
              /\ scanOut.Signature =
                    IF Has(scanIn.stdout, "FOUND")
                    THEN scanIn.stdout[IndexOf(scanIn.stdout, "FOUND") - 2]
                    ELSE ""
        /\ scanIn.code >= 2 => scanOut.Status = "error"

\* C19: Trend Micro on-demand with parseable JSON decides, for all counters
\* and infectedFiles lists: error if numOfFileSkipped > 0 and
\* numOfFileScanned = 0; else infected, with the first entry's malwareName, if
\* numOfFileInfected > 0; else clean if numOfFileScanned > 0; else error.
C19_JSONDecision ==
    (engine = "trendmicro" /\ scanIn.run \in {"nil", "ExitError"}
     /\ scanIn.out.json) =>
        LET o == scanIn.out
        IN  /\ ~scanOut.err
            /\ scanOut.Status =
                  IF o.skipped > 0 /\ o.scanned = 0 THEN "error"
                  ELSE IF o.infected > 0 THEN "infected"
                  ELSE IF o.scanned > 0 THEN "clean"
                  ELSE "error"
            /\ (scanOut.Status = "infected" /\ o.infectedFiles # << >>) =>
                  scanOut.Signature = o.infectedFiles[1]

\* C20: when the on-demand binary cannot be invoked or exceeds the driver's
\* timeout, the driver yields an error outcome, never clean or infected, so
\* that the orchestrator enters the RTS wait (which ends in infected from a
\* cache hit or in the exhaustion error).
TimedOut(in) ==
    in.run = "DeadlineExceeded" \/ (in.run = "ExitError" /\ in.code = -1)
NotInvoked(in) == in.run = "other"

C20_FailedRunIsError ==
    (TimedOut(scanIn) \/ NotInvoked(scanIn)) =>
        /\ scanOut.err \/ scanOut.Status = "error"
        /\ ~(~scanOut.err /\ scanOut.Status \in {"clean", "infected"})


\* C21: after Driver.Start found the RTS log not readable (os.Stat failed, or
\* the file cannot be opened), Start has returned nil, no tailer reads the
\* log (none was launched when the stat failed), and the cache is as it was;
\* a request is still answered from the on-demand scan alone.
C21_StartWithoutLog ==
    /\ (start.called /\ (start.statErr \/ logState = "unreadable")) =>
          /\ ~start.err
          /\ tailer \in {"none", "opening", "exited"}
          /\ tailPos = 0
          /\ detections = << >>
          /\ (pc[Client] \in {"finalize", "done"} /\ ret[Client] # "error") =>
                /\ ~result[Client].err
                /\ finalStatus[Client] = result[Client].Status
                /\ probes[Client] = 0
    /\ (start.called /\ start.statErr) => tailer = "none"

C21_Witness ==
    /\ engine # "mock"
    /\ start.called /\ start.statErr
    /\ logState = "readable"
    /\ tailer = "none"
    /\ pc[Client] = "done" /\ ret[Client] = "ok"
    /\ finalStatus[Client] = "infected"

\* C22: the tailer starts at the end of the log as it stands: an entry enters
\* the cache only when the tailer hands over a line that lies after the
\* lines the log held when Start was called, never one of those.
C22_NoReplay ==
    [][(\E k \in DOMAIN detections' :
           k \notin DOMAIN detections \/ detections'[k] # detections[k]) =>
          /\ tailer = "running"
          /\ tailPos' = tailPos + 1
          /\ tailPos' > start.histLen
          /\ line' = rtsLog[tailPos']]_vars

C22_Witness ==
    /\ start.histLen = 1
    /\ tailer = "running"
    /\ tailPos = 2
    /\ DOMAIN detections = {"/up/a"}

\* C30: the key under which the tailer stored a logged path and the key of
\* the orchestrator's lookup for a file of that same path are equal, also
\* when the path cannot be made absolute: a probe for the path takes the
\* entry that the tailer stored for it.
C30_SameKey ==
    [][ScanProbe(Client) =>
          \A k \in DOMAIN detections :
             detections[k].FilePath = req[Client].filePath =>
                k \notin DOMAIN detections']_vars


\* The last request served was POST /scan and reached handleScan.
ScanServed == hreq.path = "/api/v1/scan" /\ resp.next
UsableFile == hreq.form.multipart /\ "file" \in hreq.form.fields
ScanOK == resp.scanCalled /\ ~hreq.scan.err
ScanFailed == resp.scanCalled /\ hreq.scan.err
VerdictBody ==
    /\ resp.status = 200
    /\ "error" \notin DOMAIN resp.body
    /\ resp.body.status = hreq.scan.Status
    /\ resp.body.engine = engine
    /\ ("signature" \in DOMAIN resp.body) <=> (hreq.scan.Signature # "")
    /\ ("signature" \in DOMAIN resp.body) =>
          resp.body.signature = hreq.scan.Signature

\* C23, as stated: POST /scan answers 200 for a clean and for an infected
\* verdict, with signature in the body only when it is not empty; it answers
\* 5xx only when the orchestrator returned an error, and an orchestrator
\* error is always a 500, never a 200.
C23_OnlyScanErrorsGive5xx ==
    ScanServed =>
       /\ ScanOK => VerdictBody
       /\ resp.status >= 500 => ScanFailed
       /\ ScanFailed => resp.status = 500 /\ "error" \in DOMAIN resp.body

\* C23, amended: ... it answers 5xx only when the orchestrator returned an
\* error or the upload could not be saved (and then without calling the
\* orchestrator); an orchestrator error is always a 500, never a 200.
C23_VerdictsAnd5xx ==
    ScanServed =>
       /\ ScanOK => VerdictBody
       /\ resp.status >= 500 =>
             \/ ScanFailed
             \/ ~resp.scanCalled /\ UsableFile /\ hreq.save # "ok"
       /\ ScanFailed => resp.status = 500 /\ "error" \in DOMAIN resp.body

C23_Witness ==
    /\ ScanServed /\ ScanOK
    /\ hreq.scan.Status = "infected" /\ hreq.scan.Signature = ""
    /\ resp.status = 200

\* C24: POST /scan without a usable 'file' multipart field is answered 400,
\* an upload larger than MAX_FILE_SIZE is answered 413; in both cases no
\* file is created and the orchestrator is not called.
C24_Rejections ==
    ScanServed =>
       /\ ~UsableFile =>
             resp.status = 400 /\ ~resp.created /\ ~resp.scanCalled
       /\ (UsableFile /\ hreq.size > MaxFileSize) =>
             resp.status = 413 /\ ~resp.created /\ ~resp.scanCalled

\* C25: when os.Create or io.Copy fails, the handler answers 500 and does
\* not call the orchestrator, and a file it created is removed: no partial
\* file is left in the upload directory.
C25_SaveFailure ==
    (ScanServed /\ UsableFile /\ hreq.save # "ok") =>
       /\ resp.status = 500
       /\ ~resp.scanCalled
       /\ resp.created => resp.removed
       /\ ~resp.left

C25_Witness ==
    /\ ScanServed /\ UsableFile /\ hreq.save = "copyErr"
    /\ resp.created /\ resp.removed /\ resp.status = 500

\* The last request: to a skip path, with a Bearer header, a token the auth
\* service validated, an identity the allowlist holds.
Skip == hreq.path \in {"/api/v1/live", "/api/v1/ready", "/metrics"}
Bearer == hreq.header # << >> /\ hreq.header[1] = "Bearer "
Validated == Bearer /\ hreq.answer.code = 200 /\ hreq.answer.valid
Listed ==
    ("prod/" \o hreq.answer.namespace \o "/" \o hreq.answer.serviceAccount)
        \in entries

\* C26: with auth enabled the wrapped handler runs only for a skip path, or
\* for a Bearer header whose token the auth service validated and whose
\* cluster/namespace/serviceAccount is in the allowlist, the identity then
\* being attached; otherwise the answer is 401 (no header, no Bearer
\* scheme, validation failed) or 403 (not in the allowlist), and the auth
\* service is not called for skip paths, missing and non-Bearer headers.
C26_AuthGate ==
    (authEnabled /\ hreq.path # "") =>
       /\ resp.next <=> (Skip \/ (Validated /\ Listed))
       /\ (resp.next /\ ~Skip) =>
             resp.identity = [Cluster |-> "prod",
                              Namespace |-> hreq.answer.namespace,
                              ServiceAccount |-> hreq.answer.serviceAccount]
       /\ (~resp.next /\ ~Validated) => resp.status = 401
       /\ (~resp.next /\ Validated) => resp.status = 403
       /\ (Skip \/ ~Bearer) => ~resp.contacted

C26_Witness ==
    /\ authEnabled /\ hreq.path = "/api/v1/scan"
    /\ Validated /\ ~Listed
    /\ resp.status = 403 /\ resp.contacted

\* C29: the bodies of GET /health and GET /engines list every engine
\* (clamav, trendmicro, mock) whichever is active, and the status of
\* /health is 200 when the active engine is healthy, 503 otherwise.
C29_AllEnginesListed ==
    (resp.next /\ hreq.path \in {"/api/v1/health", "/api/v1/engines"}) =>
       /\ {resp.body.engines[i].engine : i \in DOMAIN resp.body.engines}
             = {"clamav", "trendmicro", "mock"}
       /\ hreq.path = "/api/v1/health" =>
             resp.status = IF engine = "mock" \/ logState # "missing"
                           THEN 200 ELSE 503
       /\ hreq.path = "/api/v1/engines" => resp.status = 200


HasEICAR(bytes) ==
    \E i \in 1..Len(bytes) :
       \A j \in 1..Len(EICAR) :
          i + j - 1 <= Len(bytes) /\ bytes[i + j - 1] = EICAR[j]

\* C28: the mock driver's on-demand scan of a file it could read returns
\* infected with signature EICAR-Test-File exactly when the bytes contain
\* the EICAR string, and clean with no signature otherwise; the orchestrator
\* returns that verdict, for engine mock, without a probe of the cache.
C28_MockVerdict ==
    \A r \in Requests :
       pc[r] \in {"loop", "sleep", "finalize", "done"} =>
          /\ engine = "mock"
          /\ probes[r] = 0
          /\ ~result[r].err =>
                /\ HasEICAR(fileBytes[r]) =>
                      /\ result[r].Status = "infected"
                      /\ result[r].Signature = "EICAR-Test-File"
                /\ ~HasEICAR(fileBytes[r]) =>
                      /\ result[r].Status = "clean"
                      /\ result[r].Signature = ""
                /\ pc[r] \in {"finalize", "done"}
                /\ finalStatus[r] = result[r].Status
                /\ signature[r] = result[r].Signature
                /\ pc[r] = "done" => ret[r] = "ok"
          /\ result[r].err => (pc[r] = "done" => ret[r] = "error")

C28_Witness ==
    /\ pc["r1"] = "done" /\ ret["r1"] = "ok"
    /\ fileBytes["r1"] = <<"a", "b">> \o EICAR \o <<"c">>
    /\ finalStatus["r1"] = "infected" /\ signature["r1"] = "EICAR-Test-File"
    /\ pc["r2"] = "done" /\ ret["r2"] = "ok"
    /\ fileBytes["r2"] = [EICAR EXCEPT ![3] = "x"]
    /\ finalStatus["r2"] = "clean"


\* The instants at which the cache clock stands, and the last tick of the
\* sweeper inside the clock's horizon.
Instants == {k * ClockStep : k \in 0..(MaxTime \div ClockStep)}
LastTick == (MaxTime \div DefaultCleanupInterval) * DefaultCleanupInterval
Holds(p, t) == p \in DOMAIN detections /\ detections[p].Timestamp = t

\* C31: while the sweeper runs, every detection the tailer put into the cache
\* is eventually removed from it (taken by a request, swept once older than
\* TTL, or replaced by a later detection of the path); an entry whose request
\* finished on the fast path does not stay forever.
C31_EventuallyRemoved ==
    \A t \in {i \in Instants : LastTick - i > NewDetectionCache(DefaultTTL)} :
       Holds(SweptPath, t) ~> ~Holds(SweptPath, t)

C31_Witness ==
    /\ pc[Client] = "done" /\ ret[Client] = "ok" /\ probes[Client] = 0
    /\ AbsPathOf(Client) \in swept
    /\ AbsPathOf(Client) \notin DOMAIN detections


OnDemandDone(r) == result[r] # NoResult

\* C32: within one request the on-demand scan has completed before the first
\* cache probe; the wait loop is entered only after an on-demand scan that
\* returned an error or a status that is neither clean nor infected; a
\* request that adopted a decisive on-demand verdict never probes the cache.
C32_OnDemandBeforeProbe ==
    \A r \in Requests :
       /\ pc[r] \in {"idle", "manual"} => probes[r] = 0 /\ ~OnDemandDone(r)
       /\ pc[r] \in {"loop", "sleep"} =>
             OnDemandDone(r) /\ ~(ManualInfected(r) \/ ManualClean(r))
       /\ probes[r] > 0 =>
             OnDemandDone(r) /\ ~(ManualInfected(r) \/ ManualClean(r))
       /\ (ManualInfected(r) \/ ManualClean(r)) =>
             probes[r] = 0 /\ pc[r] \in {"finalize", "done"}

C32_Witness ==
    /\ pc["r1"] = "done" /\ ~result["r1"].err /\ result["r1"].Status = "error"
    /\ probes["r1"] = 2
    /\ pc["r2"] = "done" /\ ManualClean("r2") /\ probes["r2"] = 0
    /\ req["r1"].filePath = req["r2"].filePath
    /\ AbsPathOf("r2") \in DOMAIN detections


\* C33: the wait budget is rts_wait_base + floor(S / 1 MiB) * rts_wait_per_mb
\* milliseconds of the active driver's configuration: a request leaves the
\* head of the loop for another probe exactly when its accumulated wait is
\* below that budget and for the exhaustion error exactly when it is not; a
\* file under 1 MiB adds nothing to the base.
C33_WaitBudget ==
    [][\A r \in Requests :
          (pc[r] = "loop" /\ pc'[r] # "loop") =>
             /\ probes'[r] = probes[r] + 1 <=> waited[r] < Budget(r)
             /\ ret'[r] = "error" <=> waited[r] >= Budget(r)
             /\ req[r].size < MiB => Budget(r) = cfg.RTSCacheBaseDelay]_vars

C33_Witness ==
    /\ cfg.RTSCacheBaseDelay = 0 /\ cfg.RTSCacheDelayPerMB > 0
    /\ pc["r1"] = "done" /\ ret["r1"] = "error"
    /\ req["r1"].size = MiB - 1 /\ probes["r1"] = 0
    /\ pc["r2"] = "done" /\ ret["r2"] = "error"
    /\ req["r2"].size = MaxSizeMB * MiB /\ probes["r2"] = 1


\* C34: the outcome of the file removal never changes the result: whether
\* os.Remove succeeds, reports that the file is gone already, or fails with
\* another error, Scan returns without error the verdict and signature it
\* had decided before the removal, for the active engine.
C34_RemovalNeverAlters ==
    [][(pc[Client] = "finalize" /\ pc'[Client] = "done") =>
          /\ ret'[Client] = "ok"
          /\ finalStatus'[Client] = finalStatus[Client]
          /\ finalStatus'[Client] \in {"clean", "infected"}
          /\ signature'[Client] = signature[Client]
          /\ engine' = engine]_vars

C34_Witness ==
    /\ pc[Client] = "done" /\ ret[Client] = "ok"
    /\ finalStatus[Client] = "infected" /\ signature[Client] = "SigA"
    /\ AbsPathOf(Client) \in files

\* C38: every request that reaches the orchestrator records exactly one scan
\* sample: Scan records one labelled with the verdict when it succeeds and
\* none when it fails, and the handler then records one labelled error; on
\* the response the request has one sample, never two and never none.
C38_OneSamplePerRequest ==
    [][/\ pc'[Client] \in {"manual", "loop", "sleep", "finalize"} =>
             samples'[Client] = << >>
       /\ (pc'[Client] = "done" /\ ret'[Client] = "error") =>
             samples'[Client] = << >>
       /\ (pc'[Client] = "done" /\ ret'[Client] = "ok") =>
             samples'[Client] =
                <<[engine |-> engine, result |-> finalStatus'[Client]]>>
       /\ (pc[Client] = "done" /\ pc'[Client] = "idle") =>
             samples'[Client] =
                <<[engine |-> engine,
                   result |-> IF ret[Client] = "ok" THEN finalStatus[Client]
                              ELSE "error"]>>]_vars

C38_Witness ==
    /\ pc[Client] = "idle"
    /\ samples[Client] = <<[engine |-> "trendmicro", result |-> "error"]>>
    /\ detections # << >>


\* C35: in the wait loop the first cache observation for the path decides
\* the request and consumes the entry: a probe that finds the entry adopts
\* its signature and removes it, a probe that finds none adopts nothing, no
\* other request is decided by that step, and a decided request makes no
\* further probe and keeps its verdict whatever is put for the path later.
\* So one detection is adopted by at most one of the requests waiting on it.
C35_FirstObservationWins ==
    [][\A r \in Requests :
          /\ (pc[r] = "loop" /\ probes'[r] = probes[r] + 1) =>
                /\ AbsPathOf(r) \in DOMAIN detections =>
                      /\ pc'[r] = "finalize"
                      /\ finalStatus'[r] = "infected"
                      /\ signature'[r] = detections[AbsPathOf(r)].Signature
                      /\ AbsPathOf(r) \notin DOMAIN detections'
                /\ AbsPathOf(r) \notin DOMAIN detections =>
                      finalStatus'[r] = "" /\ pc'[r] = "sleep"
                /\ \A q \in Requests \ {r} :
                      /\ pc'[q] = pc[q] /\ probes'[q] = probes[q]
                      /\ finalStatus'[q] = finalStatus[q]
                      /\ signature'[q] = signature[q]
          /\ (finalStatus[r] # "" /\ pc'[r] # "idle") =>
                /\ probes'[r] = probes[r]
                /\ finalStatus'[r] = finalStatus[r]
                /\ signature'[r] = signature[r]]_vars

C35_Witness ==
    /\ req["r1"].filePath = req["r2"].filePath
    /\ pc["r1"] = "done" /\ ret["r1"] = "ok" /\ result["r1"].err
    /\ finalStatus["r1"] = "infected" /\ probes["r1"] = 2
    /\ pc["r2"] = "done" /\ ret["r2"] = "error" /\ probes["r2"] = 1
    /\ AbsPathOf("r1") \in DOMAIN detections


TailerAlive == tailer \in {"opening", "running"}
InFlight(r) == pc[r] \in {"manual", "loop", "sleep", "finalize"}

\* C36: after driver.Stop() the tailer eventually terminates; once it has
\* terminated it stays so and no log line, however many are appended, adds
\* or changes an entry of the cache; a request in flight still runs to its
\* return, taking what the cache holds.
C36_StopEndsTailer ==
    /\ (driverCtx = "cancelled") ~> ~TailerAlive
    /\ [][(driverCtx = "cancelled" /\ ~TailerAlive) =>
             /\ ~TailerAlive'
             /\ DOMAIN detections' \subseteq DOMAIN detections
             /\ \A p \in DOMAIN detections' : detections'[p] = detections[p]]_vars
    /\ (driverCtx = "cancelled" /\ InFlight(Client)) ~> (pc[Client] = "done")

C36_Witness ==
    /\ driverCtx = "cancelled" /\ tailer = "exited"
    /\ tailPos < Len(rtsLog)
    /\ Len(rtsLog) = MaxLog
    /\ pc[Client] = "done" /\ ret[Client] = "ok" /\ result[Client].err
    /\ finalStatus[Client] = "infected"


\* C37: if, while a request is in the wait loop for a path with its
\* accumulated wait still below max_wait, the cache holds infected(sig) for
\* that path (the tailer has put it), the request returns infected(sig) and
\* not the exhaustion error.
C37_NoDetectionMissed ==
    \A sig \in LogSigs \cup {"virus"} :
       (/\ pc[Client] \in {"loop", "sleep"}
        /\ waited[Client] < Budget(Client)
        /\ AbsPathOf(Client) \in DOMAIN detections
        /\ detections[AbsPathOf(Client)].Signature = sig)
       ~> (/\ pc[Client] = "done" /\ ret[Client] = "ok"
           /\ finalStatus[Client] = "infected" /\ signature[Client] = sig)


\* C39: in every state after Start (and before Stop), if the health check of
\* the active ClamAV or Trend Micro driver reports healthy, a tailer of that
\* driver's log has been launched and is running, also when the log was
\* missing at Start and appeared later.
C39_HealthyMeansTailing ==
    (/\ start.called /\ engine # "mock" /\ driverCtx = "active"
     /\ DriverCheckHealth(engine, logState).Healthy)
    => tailer \in {"opening", "running"}


EntriesOf(data) == {data.allowlist[i] : i \in DOMAIN data.allowlist}
LoadFails(data) == data.readErr \/ ~data.yaml

\* C40: a reload that fails, because the file cannot be read or is not valid
\* YAML when the change event is handled, leaves the loaded entries as they
\* were, so IsAllowed answers from the last successful load; the entries
\* only ever change by a successful load, which replaces them as a whole.
C40_FailedReloadKeepsEntries ==
    [][/\ (watcher.in = "load" /\ watcher'.in = "select"
           /\ LoadFails(watcher.data)) =>
             /\ entries' = entries
             /\ \A ns \in {"ns1", "ns2"}, sa \in {"sa1", "sa2"} :
                   IsAllowed(entries', ClusterName, ns, sa)
                      = IsAllowed(entries, ClusterName, ns, sa)
       /\ entries' # entries =>
             /\ watcher.in = "load" /\ ~LoadFails(watcher.data)
             /\ entries' = EntriesOf(watcher.data)]_vars

\* Every event of an invalid rewrite has been handled, the last of them by a
\* load that failed, and the entries of the load before it are in force.
C40_Witness ==
    /\ allowFile = BadFile /\ writer.in = "idle"
    /\ events = 0 /\ watcher.in = "select"
    /\ entries = {"prod/ns1/sa1", "prod/ns2/sa2"}

=============================================================================
